---- MODULE Spec2Model ----
(***************************************************************************)
(* Model of the channel-health single-flight batch trigger                 *)
(* (controller/channel-test.go, testAllChannels), of its batch loop and of *)
(* the single-channel TestChannel handler, of the Gemini prompt cache      *)
(* manager (package gemini, GetOrCreateGeminiCache in its variant that     *)
(* returns handle, created, estimatedTokens and error) and of the Gemini   *)
(* image response handler (relay/channel/gemini/adaptor.go).               *)
(* The subsystems share no state; each has its own specification.          *)
(***************************************************************************)
EXTENDS Integers, Sequences, FiniteSets, TLC

(* ------------------------------ bounds -------------------------------- *)
\* concurrent callers of testAllChannels (HTTP trigger handlers, timer loop)
NumCallers == 2
\* goroutine slots the pool can hold for batch closures
MaxBatch == 2
\* largest channel list model.GetAllChannels returns
NumChannels == 2

Callers == 1..NumCallers
Slots == 1..MaxBatch

(* --------------------------- state: health ---------------------------- *)
VARIABLES
    testAllChannelsLock,     \* holder of the sync.Mutex, or Free
    testAllChannelsRunning,  \* the package-level bool
    inv,                     \* per caller: position inside testAllChannels
    batch,                   \* per pool slot: the gopool.Go closure
    lastEnd                  \* how the most recently ended batch ended

healthVars == <<testAllChannelsLock, testAllChannelsRunning, inv, batch, lastEnd>>

(* ---------------------------- state: cache ---------------------------- *)
VARIABLES
    EnableCache,    \* model_setting.GetGeminiSettings().EnableCache
    RedisEnabled,   \* common.RedisEnabled
    RDB,            \* the shared store: key -> value, EmptyString when absent
    upstream,       \* handle names that exist at the provider
    created,        \* number of cachedContents entries the provider has made
    cachedContents, \* per handle: the create request the provider received for it
    proc            \* per relay request: position inside GetOrCreateGeminiCache

cacheVars == <<EnableCache, RedisEnabled, RDB, upstream, created, cachedContents, proc>>

(* ------------------------- state: batch loop -------------------------- *)
VARIABLES
    loop,           \* the batch closure of testAllChannels, one iteration in detail
    actions         \* disable/enable actions invoked by the loop and still running

loopVars == <<loop, actions>>

(* ----------------------- state: single channel test ------------------- *)
VARIABLES
    single,         \* the TestChannel handler call in progress or last finished
    updates         \* "go channel.UpdateResponseTime(ms)" goroutines still running

singleVars == <<single, updates>>

(* ------------------------ state: image response ----------------------- *)
VARIABLES
    image           \* a GeminiImageHandler call: upstream response and outcome

imageVars == <<image>>

(* ------- state: test quota ------- *)
VARIABLES
    pricing    \* the quota computation of a test: usage, price data and the quota

(* ------- state: Gemini request URL ------- *)
VARIABLES
    relay    \* a relay call of the Gemini adaptor: its RelayInfo and what GetRequestURL returned

(* ------- state: routing of a channel test ------- *)
VARIABLES
    route    \* the routing testChannel chose for one call

vars == <<healthVars, cacheVars, loopVars, singleVars, imageVars, pricing, relay, route>>
\* what the actions of one subsystem leave alone
nonHealthVars == <<cacheVars, loopVars, singleVars, imageVars, pricing, relay, route>>
nonCacheVars == <<healthVars, loopVars, singleVars, imageVars, pricing, relay, route>>
nonLoopVars == <<healthVars, cacheVars, singleVars, imageVars, pricing, relay, route>>
\* what the batch closure and its trigger leave alone besides the flag and its mutex
outsideBatchVars == <<inv, batch, lastEnd, cacheVars, singleVars, imageVars, pricing, relay, route>>
\* what the hand-over of the closure leaves alone besides the caller and the loop
beyondHealthVars == <<batch, lastEnd, cacheVars, singleVars, imageVars, pricing, relay, route>>
nonSingleVars == <<healthVars, cacheVars, loopVars, imageVars, pricing, relay, route>>
nonImageVars == <<healthVars, cacheVars, loopVars, singleVars, pricing, relay, route>>
nonPricingVars == <<healthVars, cacheVars, loopVars, singleVars, imageVars, relay, route>>
nonRelayVars == <<healthVars, cacheVars, loopVars, singleVars, imageVars, pricing, route>>
nonRouteVars == <<healthVars, cacheVars, loopVars, singleVars, imageVars, pricing, relay>>

Free == <<"free", 0>>
InvId(c) == <<"inv", c>>
BatchId(b) == <<"batch", b>>

IdleInv == [pc |-> "idle", notify |-> FALSE, observed |-> FALSE,
            channels |-> <<>>, result |-> "none"]
NoBatch == [pc |-> "none", idx |-> 0, channels |-> <<>>, notify |-> FALSE,
            panicked |-> FALSE, notified |-> FALSE]

InitHealth ==
    /\ testAllChannelsLock = Free
    /\ testAllChannelsRunning = FALSE
    /\ inv = [c \in Callers |-> IdleInv]
    /\ batch = [b \in Slots |-> NoBatch]
    /\ lastEnd = "none"

InFlight == {b \in Slots : batch[b].pc # "none"}

(* sync.Mutex.Lock blocks until the mutex is free *)
LockAlwaysAvailable == TRUE
LockAvailable == testAllChannelsLock = Free

(* the deferred closure runs on normal return and on panic alike *)
CleanupOnlyOnReturn(panicked) == ~panicked
DeferredCleanupRuns(panicked) == TRUE

(* ----------------------- testAllChannels(notify) ---------------------- *)
\* TestAllChannels passes true, AutomaticallyTestChannels passes false
CallTestAllChannels(c) ==
    /\ inv[c].pc = "idle"
    /\ \E n \in BOOLEAN :
         inv' = [inv EXCEPT ![c] = [IdleInv EXCEPT !.pc = "lock", !.notify = n]]
    /\ UNCHANGED <<testAllChannelsLock, testAllChannelsRunning, batch, lastEnd, nonHealthVars>>

\* testAllChannelsLock.Lock()
InvLock(c) ==
    /\ inv[c].pc = "lock"
    /\ LockAvailable
    /\ testAllChannelsLock' = InvId(c)
    /\ inv' = [inv EXCEPT ![c].pc = "check"]
    /\ UNCHANGED <<testAllChannelsRunning, batch, lastEnd, nonHealthVars>>

\* if testAllChannelsRunning { ... }
InvCheck(c) ==
    /\ inv[c].pc = "check"
    /\ IF testAllChannelsRunning
         THEN inv' = [inv EXCEPT ![c].pc = "rejectUnlock", ![c].observed = TRUE]
         ELSE inv' = [inv EXCEPT ![c].pc = "set"]
    /\ UNCHANGED <<testAllChannelsLock, testAllChannelsRunning, batch, lastEnd, nonHealthVars>>

\* testAllChannelsLock.Unlock(); return errors.New(...)
InvReject(c) ==
    /\ inv[c].pc = "rejectUnlock"
    /\ testAllChannelsLock' = Free
    /\ inv' = [inv EXCEPT ![c] = [IdleInv EXCEPT !.result = "running"]]
    /\ UNCHANGED <<testAllChannelsRunning, batch, lastEnd, nonHealthVars>>

\* testAllChannelsRunning = true
InvSet(c) ==
    /\ inv[c].pc = "set"
    /\ testAllChannelsRunning' = TRUE
    /\ inv' = [inv EXCEPT ![c].pc = "unlock"]
    /\ UNCHANGED <<testAllChannelsLock, batch, lastEnd, nonHealthVars>>

\* testAllChannelsLock.Unlock()
InvUnlock(c) ==
    /\ inv[c].pc = "unlock"
    /\ testAllChannelsLock' = Free
    /\ inv' = [inv EXCEPT ![c].pc = "load"]
    /\ UNCHANGED <<testAllChannelsRunning, batch, lastEnd, nonHealthVars>>

\* channels, getChannelErr := model.GetAllChannels(...): the list loads
InvLoadOk(c) ==
    /\ inv[c].pc = "load"
    /\ \E n \in 0..NumChannels :
         inv' = [inv EXCEPT ![c].pc = "spawn",
                            ![c].channels = [i \in 1..n |-> i]]
    /\ UNCHANGED <<testAllChannelsLock, testAllChannelsRunning, batch, lastEnd, nonHealthVars>>

\* if getChannelErr != nil { return getChannelErr }
InvLoadErr(c) ==
    /\ inv[c].pc = "load"
    /\ inv' = [inv EXCEPT ![c] = [IdleInv EXCEPT !.result = "loadErr"]]
    /\ UNCHANGED <<testAllChannelsLock, testAllChannelsRunning, batch, lastEnd, nonHealthVars>>

\* the closure as gopool.Go leaves it when testAllChannels returns: handed to
\* the pool, its loop not yet begun
RanInline(channels, notify) ==
    [NoBatch EXCEPT !.pc = "deferLock", !.idx = Len(channels) + 1,
                    !.channels = channels, !.notify = notify, !.notified = notify]
SpawnedBatch(channels, notify) ==
    [NoBatch EXCEPT !.pc = "loop", !.idx = 1, !.channels = channels, !.notify = notify]

\* gopool.Go(func() {...}); return nil
InvSpawn(c) ==
    /\ inv[c].pc = "spawn"
    /\ \E b \in Slots :
         /\ batch[b].pc = "none"
         /\ \A b2 \in Slots : b2 < b => batch[b2].pc # "none"
         /\ batch' = [batch EXCEPT ![b] = SpawnedBatch(inv[c].channels, inv[c].notify)]
    /\ inv' = [inv EXCEPT ![c] = [IdleInv EXCEPT !.result = "nil"]]
    /\ UNCHANGED <<testAllChannelsLock, testAllChannelsRunning, lastEnd, nonHealthVars>>

(* --------------------------- batch closure ---------------------------- *)
\* one iteration of "for _, channel := range channels" that completes
BatchTestChannel(b) ==
    /\ batch[b].pc = "loop"
    /\ batch[b].idx <= Len(batch[b].channels)
    /\ batch' = [batch EXCEPT ![b].idx = @ + 1]
    /\ UNCHANGED <<testAllChannelsLock, testAllChannelsRunning, inv, lastEnd, nonHealthVars>>

\* an iteration panics: control passes to the deferred closure
BatchPanic(b) ==
    /\ batch[b].pc = "loop"
    /\ batch[b].idx <= Len(batch[b].channels)
    /\ batch' = [batch EXCEPT ![b].pc = "deferLock", ![b].panicked = TRUE]
    /\ UNCHANGED <<testAllChannelsLock, testAllChannelsRunning, inv, lastEnd, nonHealthVars>>

\* after the last channel: if notify { service.NotifyRootUser(...) }
BatchFinish(b) ==
    /\ batch[b].pc = "loop"
    /\ batch[b].idx > Len(batch[b].channels)
    /\ batch' = [batch EXCEPT ![b].pc = "deferLock",
                              ![b].notified = batch[b].notify]
    /\ UNCHANGED <<testAllChannelsLock, testAllChannelsRunning, inv, lastEnd, nonHealthVars>>

\* deferred: testAllChannelsLock.Lock()
BatchDeferLock(b) ==
    /\ batch[b].pc = "deferLock"
    /\ LockAvailable
    /\ testAllChannelsLock' = BatchId(b)
    /\ batch' = [batch EXCEPT ![b].pc = "deferSet"]
    /\ UNCHANGED <<testAllChannelsRunning, inv, lastEnd, nonHealthVars>>

\* deferred: testAllChannelsRunning = false
BatchDeferSet(b) ==
    /\ batch[b].pc = "deferSet"
    /\ testAllChannelsRunning' =
         IF DeferredCleanupRuns(batch[b].panicked) THEN FALSE
                                                   ELSE testAllChannelsRunning
    /\ batch' = [batch EXCEPT ![b].pc = "deferUnlock"]
    /\ UNCHANGED <<testAllChannelsLock, inv, lastEnd, nonHealthVars>>

\* deferred: testAllChannelsLock.Unlock(); the goroutine ends
BatchDeferUnlock(b) ==
    /\ batch[b].pc = "deferUnlock"
    /\ testAllChannelsLock' = Free
    /\ lastEnd' = IF batch[b].panicked THEN "panic" ELSE "normal"
    /\ batch' = [batch EXCEPT ![b] = NoBatch]
    /\ UNCHANGED <<testAllChannelsRunning, inv, nonHealthVars>>

NextHealth ==
    \/ \E c \in Callers : CallTestAllChannels(c)
    \/ \E c \in Callers : InvLock(c)
    \/ \E c \in Callers : InvCheck(c)
    \/ \E c \in Callers : InvReject(c)
    \/ \E c \in Callers : InvSet(c)
    \/ \E c \in Callers : InvUnlock(c)
    \/ \E c \in Callers : InvLoadOk(c)
    \/ \E c \in Callers : InvLoadErr(c)
    \/ \E c \in Callers : InvSpawn(c)
    \/ \E b \in Slots : BatchTestChannel(b)
    \/ \E b \in Slots : BatchPanic(b)
    \/ \E b \in Slots : BatchFinish(b)
    \/ \E b \in Slots : BatchDeferLock(b)
    \/ \E b \in Slots : BatchDeferSet(b)
    \/ \E b \in Slots : BatchDeferUnlock(b)

(* ================= batch closure, one iteration in detail ============= *)
\* SpecHealth above takes an iteration of the loop as one step; the actions
\* below follow lines 397-458 statement by statement for one accepted batch.

\* channel.Status values of the snapshot
ChannelStatusEnabled == "enabled"
ChannelStatuses == {ChannelStatusEnabled, "manuallyDisabled", "autoDisabled"}

\* common.ChannelDisableThreshold, a float64 of seconds, as a fraction num/den
Seconds(num, den) == [num |-> num, den |-> den]
ChannelDisableThresholds == {Seconds(0, 1), Seconds(1, 2000), Seconds(5, 1)}
\* tok.Sub(tik).Milliseconds() values a test can take
Elapsed == {5000, 5001, 10000000, 10000001}

\* disableThreshold when the configured value converts to 0
DefaultDisableThreshold == 10000000
\* int64(common.ChannelDisableThreshold * 1000), then the default when 0
DisableThreshold(cfg) ==
    LET converted == (cfg.num * 1000) \div cfg.den
    IN IF converted = 0 THEN DefaultDisableThreshold ELSE converted

\* the shapes of testResult that testChannel returns: both errors nil on
\* success, localErr alone (unsupported channel type, user cache), or both set
TestResults == {[localErr |-> FALSE, newAPIError |-> FALSE],
                [localErr |-> TRUE, newAPIError |-> FALSE],
                [localErr |-> TRUE, newAPIError |-> TRUE]}
NoTestResult == [localErr |-> FALSE, newAPIError |-> FALSE]

\* shouldBanChannel after "if newAPIError != nil { ... ShouldDisableChannel }"
Classified(result, banAnswer) == result.newAPIError /\ banAnswer = "yes"

\* "if common.AutomaticDisableChannelEnabled && !shouldBanChannel {
\*      if milliseconds > disableThreshold {"
Promoted(autoDisable, shouldBan, milliseconds, disableThreshold) ==
    autoDisable /\ ~shouldBan /\ milliseconds > disableThreshold

\* the loop's newAPIError once the latency check has run
ResultingError(result, promoted) ==
    IF promoted THEN "timeout" ELSE IF result.newAPIError THEN "api" ELSE "nil"

\* result.context: the returns for an unsupported channel type (lines 41-58)
\* and for a user-cache failure (lines 99-102) set localErr only; every other
\* return carries the test context c
ContextOf(result) ==
    IF result.localErr /\ ~result.newAPIError THEN "nil" ELSE "c"

\* the call common.GetContextKeyString(result.context, ...) of lines 439 and
\* 448. The body of the callee is not part of this source, so of a call with
\* the nil context only this is known: it returns a string, or it does not
\* return and the goroutine panics. Both are kept; a property of the loop is
\* settled here only when it comes out the same under either.
GetContextKeyString(context) ==
    IF context = "nil" THEN {"panic", "empty"} ELSE {"key"}

\* the disable branch without the status snapshot
InvokeDisableAnyStatus(isChannelEnabled, shouldBan, autoBan) == shouldBan /\ autoBan
\* "if isChannelEnabled && shouldBanChannel && channel.GetAutoBan()"
InvokeDisable(isChannelEnabled, shouldBan, autoBan) ==
    isChannelEnabled /\ shouldBan /\ autoBan

\* "if !isChannelEnabled && service.ShouldEnableChannel(newAPIError, channel.Status)"
InvokeEnable(isChannelEnabled, enableAnswer) == ~isChannelEnabled /\ enableAnswer = "yes"

\* how each action is started: "go processChannelError(...)" against the
\* plain call "service.EnableChannel(...)"
DisableCall == "go"
EnableCall == "call"

\* what follows channel.UpdateResponseTime(milliseconds)
NoPacing == "range"
AfterPersist == "sleep"

\* line 451 stands outside every branch of the iteration
PersistsOnSuccess(result) == ~result.localErr
Persists(result) == TRUE

\* the range loop goes to the next element whatever the iteration found
NextIndex(idx, result, n) == idx + 1

NoIter == [status |-> "none", autoBan |-> FALSE, result |-> NoTestResult,
           milliseconds |-> -1, autoDisable |-> FALSE, banAnswer |-> "notAsked",
           enableAnswer |-> "notAsked", enableArg |-> "none",
           disable |-> FALSE, enable |-> FALSE, context |-> "none",
           contextRead |-> FALSE, key |-> "none"]
NoLoop == [pc |-> "none", channels |-> <<>>, threshold |-> Seconds(0, 1),
           disableThreshold |-> 0, idx |-> 0, cur |-> NoIter, inTest |-> {},
           tested |-> <<>>, since |-> {}, persisted |-> <<>>]

InitLoop ==
    /\ loop = NoLoop
    /\ actions = {}

Action(kind, how, channel) == [kind |-> kind, how |-> how, channel |-> channel]
Channel(l) == l.channels[l.idx]

\* the caller whose trigger starts the batch this loop follows; the trigger is
\* testAllChannels itself, statement by statement (CallTestAllChannels to
\* InvLoadErr above). It may arrive at any time: before a batch, while the
\* closure runs (it is then rejected under the mutex it shares with the
\* deferred function) or after a failed load has left the flag true.
TriggerCaller == CHOOSE c \in Callers : \A d \in Callers : c <= d

\* lines 397-402 and 459: the threshold is computed, gopool.Go hands the
\* closure over with the loaded snapshot, testAllChannels returns nil. (No
\* earlier closure is left then: the trigger found the flag false under the
\* mutex, which the deferred function of the closure before it had released.)
StartBatch(c) ==
    /\ inv[c].pc = "spawn"
    /\ \E cfg \in ChannelDisableThresholds :
         loop' = [NoLoop EXCEPT !.pc = "range", !.idx = 1,
                                !.channels = inv[c].channels,
                                !.threshold = cfg,
                                !.disableThreshold = DisableThreshold(cfg)]
    /\ inv' = [inv EXCEPT ![c] = [IdleInv EXCEPT !.result = "nil"]]
    /\ UNCHANGED <<actions, testAllChannelsLock, testAllChannelsRunning,
                   beyondHealthVars>>

\* lines 409-412: the next element of the snapshot is taken, its Status and
\* AutoBan are read (fixed since the load) and testChannel is called
BatchTestStart ==
    /\ loop.pc = "range"
    /\ loop.idx <= Len(loop.channels)
    /\ \E status \in ChannelStatuses, autoBan \in BOOLEAN :
         loop' = [loop EXCEPT !.pc = "testing",
                              !.cur = [NoIter EXCEPT !.status = status,
                                                     !.autoBan = autoBan],
                              !.inTest = @ \cup {Channel(loop)},
                              !.tested = Append(@, Channel(loop)),
                              !.since = {}]
    /\ UNCHANGED <<actions, nonLoopVars>>

\* lines 412-446: testChannel returns; the elapsed time, the classifier, the
\* latency check and the two decisions; a disable is started with "go"
BatchTestReturn ==
    /\ loop.pc = "testing"
    /\ \E result \in TestResults, milliseconds \in Elapsed, autoDisable \in BOOLEAN,
          banAnswer \in {"yes", "no", "notAsked"},
          enableAnswer \in {"yes", "no", "notAsked"},
          key \in {"none", "key", "empty", "panic"} :
         LET isChannelEnabled == loop.cur.status = ChannelStatusEnabled
             shouldBan0 == Classified(result, banAnswer)
             promoted == Promoted(autoDisable, shouldBan0, milliseconds,
                                  loop.disableThreshold)
             shouldBan == shouldBan0 \/ promoted
             newAPIError == ResultingError(result, promoted)
             disableBranch == InvokeDisable(isChannelEnabled, shouldBan,
                                            loop.cur.autoBan)
             enableBranch == InvokeEnable(isChannelEnabled, enableAnswer)
             \* the arguments of "go processChannelError(...)" and of
             \* "service.EnableChannel(...)" are evaluated by the loop before
             \* the call: a panic there ends the closure with no action started
             contextRead == disableBranch \/ enableBranch
             disable == disableBranch /\ key # "panic"
             enable == enableBranch /\ key # "panic"
             started == (IF disable
                           THEN {Action("disable", DisableCall, Channel(loop))}
                           ELSE {})
                        \cup
                        (IF enable
                           THEN {Action("enable", EnableCall, Channel(loop))}
                           ELSE {})
         IN \* the classifier is consulted exactly when the test gave an API error,
            \* the re-enable predicate exactly when the snapshot status is not enabled
            /\ (banAnswer = "notAsked") <=> ~result.newAPIError
            /\ (enableAnswer = "notAsked") <=> isChannelEnabled
            /\ IF contextRead THEN key \in GetContextKeyString(ContextOf(result))
                              ELSE key = "none"
            /\ loop' = [loop EXCEPT
                 \* a panic leaves the loop: line 451 and the channels not
                 \* yet tested are skipped, the deferred function is next
                 !.pc = IF key = "panic" THEN "done" ELSE "act",
                 !.inTest = @ \ {Channel(loop)},
                 !.since = @ \cup {"returned"},
                 !.cur = [@ EXCEPT !.result = result, !.milliseconds = milliseconds,
                                   !.autoDisable = autoDisable,
                                   !.banAnswer = banAnswer,
                                   !.enableAnswer = enableAnswer,
                                   !.enableArg = IF isChannelEnabled THEN "none"
                                                 ELSE newAPIError,
                                   !.disable = disable, !.enable = enable,
                                   \* both branches pass result.context to
                                   \* common.GetContextKeyString
                                   !.context = ContextOf(result),
                                   !.contextRead = contextRead,
                                   !.key = key]]
            /\ actions' = actions \cup started
    /\ UNCHANGED nonLoopVars

\* an action started with a plain call keeps the loop until it returns; one
\* started with "go" does not
Awaited == {a \in actions : a.how = "call" /\ loop.pc = "act" /\ a.channel = Channel(loop)}

\* line 451: channel.UpdateResponseTime(milliseconds)
BatchPersist ==
    /\ loop.pc = "act"
    /\ Awaited = {}
    /\ loop' = [loop EXCEPT !.pc = AfterPersist,
                            !.since = @ \cup {"persisted"},
                            !.persisted = IF Persists(loop.cur.result)
                                            THEN Append(@, <<Channel(loop),
                                                             loop.cur.milliseconds>>)
                                            ELSE @]
    /\ UNCHANGED <<actions, nonLoopVars>>

\* line 452: time.Sleep(common.RequestInterval), then the next element
BatchSleep ==
    /\ loop.pc = "sleep"
    /\ loop' = [loop EXCEPT !.pc = "range",
                            !.since = @ \cup {"slept"},
                            !.idx = NextIndex(loop.idx, loop.cur.result,
                                              Len(loop.channels))]
    /\ UNCHANGED <<actions, nonLoopVars>>

\* lines 453-458: the range is exhausted; the closure runs to its end
BatchLoopEnd ==
    /\ loop.pc = "range"
    /\ loop.idx > Len(loop.channels)
    /\ loop' = [loop EXCEPT !.pc = "done"]
    /\ UNCHANGED <<actions, nonLoopVars>>

\* deferred, line 404: testAllChannelsLock.Lock(); the deferred function runs
\* when the loop has ended and when an iteration has panicked
BatchDeferredLock ==
    /\ loop.pc = "done"
    /\ LockAvailable
    /\ testAllChannelsLock' = BatchId(1)
    /\ loop' = [loop EXCEPT !.pc = "deferSet"]
    /\ UNCHANGED <<actions, testAllChannelsRunning, outsideBatchVars>>

\* deferred, line 405: testAllChannelsRunning = false
BatchDeferredSet ==
    /\ loop.pc = "deferSet"
    /\ testAllChannelsRunning' = FALSE
    /\ loop' = [loop EXCEPT !.pc = "deferUnlock"]
    /\ UNCHANGED <<actions, testAllChannelsLock, outsideBatchVars>>

\* deferred, line 406: testAllChannelsLock.Unlock(); the goroutine is gone and
\* a later accepted trigger starts the next batch
BatchDeferredUnlock ==
    /\ loop.pc = "deferUnlock"
    /\ testAllChannelsLock' = Free
    /\ loop' = NoLoop
    /\ UNCHANGED <<actions, testAllChannelsRunning, outsideBatchVars>>

\* processChannelError or service.EnableChannel finishes, whenever it does
ActionCompletes(a) ==
    /\ a \in actions
    /\ actions' = actions \ {a}
    /\ UNCHANGED <<loop, nonLoopVars>>

NextBatch ==
    \/ CallTestAllChannels(TriggerCaller)
    \/ InvLock(TriggerCaller)
    \/ InvCheck(TriggerCaller)
    \/ InvReject(TriggerCaller)
    \/ InvSet(TriggerCaller)
    \/ InvUnlock(TriggerCaller)
    \/ InvLoadOk(TriggerCaller)
    \/ InvLoadErr(TriggerCaller)
    \/ StartBatch(TriggerCaller)
    \/ BatchTestStart
    \/ BatchTestReturn
    \/ BatchPersist
    \/ BatchSleep
    \/ BatchLoopEnd
    \/ BatchDeferredLock
    \/ BatchDeferredSet
    \/ BatchDeferredUnlock
    \/ \E kind \in {"disable", "enable"}, how \in {"go", "call"}, ch \in 1..NumChannels :
         ActionCompletes(Action(kind, how, ch))

(* ======================= TestChannel, one channel ===================== *)
\* where testChannel returns, by the check that fails; "ok" is line 236
TestSites == {"unsupportedType", "userCache", "setupContext", "modelMapping",
              "apiType", "modelPrice", "convertRequest", "marshal", "doRequest",
              "badStatus", "doResponse", "nilUsage", "readBody", "ok"}

\* the return statements with DoResponse's return carrying the API error only
testChannelApiErrorOnly(site) ==
    IF site = "ok" THEN [localErr |-> FALSE, newAPIError |-> FALSE]
    ELSE IF site \in {"unsupportedType", "userCache"}
      THEN [localErr |-> TRUE, newAPIError |-> FALSE]
    ELSE IF site = "doResponse" THEN [localErr |-> FALSE, newAPIError |-> TRUE]
    ELSE [localErr |-> TRUE, newAPIError |-> TRUE]
\* the testResult of each return statement of testChannel
testChannel(site) ==
    IF site = "ok" THEN [localErr |-> FALSE, newAPIError |-> FALSE]
    ELSE IF site \in {"unsupportedType", "userCache"}
      THEN [localErr |-> TRUE, newAPIError |-> FALSE]
    ELSE [localErr |-> TRUE, newAPIError |-> TRUE]

\* the return statements of testChannel in the order of the source
SiteOrder == <<"unsupportedType", "userCache", "setupContext", "modelMapping",
               "apiType", "modelPrice", "convertRequest", "marshal", "doRequest",
               "badStatus", "doResponse", "nilUsage", "readBody", "ok">>
SiteIndex(site) == CHOOSE i \in 1..Len(SiteOrder) : SiteOrder[i] = site

\* adaptor.DoRequest, line 169: the calls made by a test that returns at site
DoRequests(site) ==
    IF SiteIndex(site) >= SiteIndex("doRequest") THEN 1 ELSE 0

\* RecordConsumeLog as if it came before the checks of the response
ConsumeLogsAfterRequest(site) ==
    IF SiteIndex(site) > SiteIndex("doRequest") THEN 1 ELSE 0
\* model.RecordConsumeLog, line 220: the entries written by a test that
\* returns at site; every failing return comes before it
ConsumeLogs(site) ==
    IF SiteIndex(site) >= SiteIndex("ok") THEN 1 ELSE 0

\* tok.Sub(tik).Milliseconds() values of a single test
HandlerElapsed == {0, 5000}

\* "if result.localErr != nil { ...; return }" comes before the update
ScheduleAlways(result) == TRUE
ScheduleUpdate(result) == ~result.localErr

NoResponse == [success |-> FALSE, time |-> -1, error |-> "none"]
NoSingle == [pc |-> "none", channel |-> 0, site |-> "none", result |-> NoTestResult,
             milliseconds |-> -1, tests |-> 0, scheduled |-> FALSE,
             doRequests |-> 0, consumeLogs |-> 0,
             response |-> NoResponse]

InitSingle ==
    /\ single = NoSingle
    /\ updates = {}

\* TestChannel(c), lines 333-379: the id parameter, the channel lookup, one
\* testChannel call, the response, and the update goroutine
TestChannel ==
    /\ \E idOk \in BOOLEAN, found \in BOOLEAN, ch \in 1..NumChannels,
          site \in TestSites, milliseconds \in HandlerElapsed :
         IF ~idOk \/ ~found
           THEN \* common.ApiError(c, err); return
                /\ single' = [NoSingle EXCEPT !.pc = "done",
                                !.channel = IF idOk THEN ch ELSE 0,
                                !.response = [NoResponse EXCEPT
                                   !.error = IF idOk THEN "notFound" ELSE "badId"]]
                /\ updates' = updates
           ELSE LET result == testChannel(site)
                    call == [NoSingle EXCEPT !.pc = "done", !.channel = ch,
                                             !.site = site, !.result = result,
                                             !.milliseconds = milliseconds,
                                             !.tests = 1,
                                             !.doRequests = DoRequests(site),
                                             !.consumeLogs = ConsumeLogs(site),
                                             !.scheduled = ScheduleUpdate(result)]
                IN /\ updates' = IF ScheduleUpdate(result)
                                   THEN updates \cup {<<ch, milliseconds>>}
                                   ELSE updates
                   /\ IF result.localErr
                        THEN single' = [call EXCEPT !.response =
                                          [success |-> FALSE, time |-> 0,
                                           error |-> "localErr"]]
                        ELSE single' = [call EXCEPT !.response =
                                          [success |-> ~result.newAPIError,
                                           time |-> milliseconds,
                                           error |-> IF result.newAPIError
                                                       THEN "newAPIError" ELSE "none"]]
    /\ UNCHANGED nonSingleVars

\* a "go channel.UpdateResponseTime(milliseconds)" goroutine runs to its end
UpdateResponseTime(u) ==
    /\ u \in updates
    /\ updates' = updates \ {u}
    /\ UNCHANGED <<single, nonSingleVars>>

NextSingle ==
    \/ TestChannel
    \/ \E u \in (1..NumChannels) \X HandlerElapsed : UpdateResponseTime(u)

(* ========================= GeminiImageHandler ========================= *)
\* most predictions an upstream image response carries
MaxPredictions == 3

\* one entry of GeminiImageResponse.Predictions
Prediction(bytes, reason) == [BytesBase64Encoded |-> bytes, RaiFilteredReason |-> reason]
Predictions == {Prediction(b, r) : b \in {"imgA", "imgB"}, r \in {"", "blocked"}}
RECURSIVE SeqsUpTo(_, _)
SeqsUpTo(S, n) ==
    IF n = 0 THEN {<<>>}
    ELSE LET shorter == SeqsUpTo(S, n - 1)
         IN shorter \cup {Append(s, x) : s \in {t \in shorter : Len(t) = n - 1}, x \in S}

\* what the handler receives: a body that cannot be read, one that is not
\* JSON, or a decoded GeminiImageResponse
Bodies ==
    {[kind |-> k, Predictions |-> <<>>] : k \in {"readErr", "badJSON"}}
    \cup {[kind |-> "json", Predictions |-> ps] : ps \in SeqsUpTo(Predictions, MaxPredictions)}

\* each image has fixed 258 tokens
imageTokens == 258

\* every prediction taken over, filtered or not
AcceptedUnfiltered(predictions) ==
    [i \in 1..Len(predictions) |-> [B64Json |-> predictions[i].BytesBase64Encoded]]
RECURSIVE Accepted(_)
\* the loop of lines 233-240: filtered predictions are skipped, the rest appended
Accepted(predictions) ==
    IF predictions = <<>> THEN <<>>
    ELSE IF Head(predictions).RaiFilteredReason # ""
      THEN Accepted(Tail(predictions))
      ELSE <<[B64Json |-> Head(predictions).BytesBase64Encoded]>>
           \o Accepted(Tail(predictions))

NoUsage == [nil |-> TRUE]
BadResponseBody(why) == [usage |-> NoUsage, err |-> "bad_response_body", message |-> why,
                         written |-> FALSE, Data |-> <<>>]

\* GeminiImageHandler(c, info, resp): (usage, error) and what it wrote to c.Writer
GeminiImageHandler(body) ==
    IF body.kind = "readErr" THEN BadResponseBody("read")
    ELSE IF body.kind = "badJSON" THEN BadResponseBody("unmarshal")
    ELSE IF Len(body.Predictions) = 0 THEN BadResponseBody("no images generated")
    ELSE LET data == Accepted(body.Predictions)
             generatedImages == Len(data)
         IN [usage |-> [PromptTokens |-> imageTokens * generatedImages,
                        CompletionTokens |-> 0,
                        TotalTokens |-> imageTokens * generatedImages],
             err |-> "nil", message |-> "", written |-> TRUE, Data |-> data]

NoOutcome == [usage |-> NoUsage, err |-> "none", message |-> "", written |-> FALSE,
              Data |-> <<>>]
NoImage == [pc |-> "none", body |-> [kind |-> "none", Predictions |-> <<>>],
            out |-> NoOutcome]

\* an upstream image response has arrived
InitImage ==
    \E body \in Bodies : image = [NoImage EXCEPT !.pc = "received", !.body = body]
IdleImage == image = NoImage

\* DoResponse hands the response to GeminiImageHandler
HandleImage ==
    /\ image.pc = "received"
    /\ image' = [image EXCEPT !.pc = "handled", !.out = GeminiImageHandler(image.body)]
    /\ UNCHANGED nonImageVars

NextImage == HandleImage

(* ===================== testChannel: the test quota ==================== *)
\* a float64 ratio or price as the fraction num/den (den > 0); the values
\* used have exact float64 products
Ratio(num, den) == [num |-> num, den |-> den]

\* usage.PromptTokens, usage.CompletionTokens of the test response
PromptTokenCounts == {0, 1, 100}
CompletionTokenCounts == {0, 1, 50}
\* priceData.CompletionRatio, priceData.ModelRatio, priceData.ModelPrice
CompletionRatios == {Ratio(2, 1), Ratio(1, 2), Ratio(3, 2)}
ModelRatios == {Ratio(0, 1), Ratio(1, 2), Ratio(1, 4), Ratio(-1, 2)}
ModelPrices == {Ratio(0, 1), Ratio(1, 500), Ratio(1, 3)}
\* common.QuotaPerUnit
QuotaPerUnits == {500000}

\* math.Round of num/den: to the nearest integer, halves away from zero
Round(num, den) ==
    IF num >= 0 THEN (2 * num + den) \div (2 * den)
    ELSE -((2 * (-num) + den) \div (2 * den))
\* int(x) of the float num/den: truncation toward zero
Trunc(num, den) ==
    IF num >= 0 THEN num \div den ELSE -((-num) \div den)

\* "if priceData.ModelRatio != 0 && quota <= 0 { quota = 1 }"
FloorToOneAlways(modelRatio, quota) == quota <= 0
FloorToOne(modelRatio, quota) == modelRatio.num # 0 /\ quota <= 0

\* lines 200-209: the quota of a successful test
Quota(priceData, usage) ==
    IF ~priceData.UsePrice
      THEN LET q1 == usage.PromptTokens
                     + Round(usage.CompletionTokens * priceData.CompletionRatio.num,
                             priceData.CompletionRatio.den)
               q2 == Round(q1 * priceData.ModelRatio.num, priceData.ModelRatio.den)
           IN IF FloorToOne(priceData.ModelRatio, q2) THEN 1 ELSE q2
      ELSE Trunc(priceData.ModelPrice.num * priceData.QuotaPerUnit,
                 priceData.ModelPrice.den)

PriceDatas == [UsePrice : BOOLEAN, CompletionRatio : CompletionRatios,
               ModelRatio : ModelRatios, ModelPrice : ModelPrices,
               QuotaPerUnit : QuotaPerUnits]
Usages == [PromptTokens : PromptTokenCounts, CompletionTokens : CompletionTokenCounts]

NoPricing == [pc |-> "none"]
IdlePricing == pricing = NoPricing
\* a test response has been handled: its usage and the price data are known
InitPricing ==
    \E priceData \in PriceDatas, usage \in Usages :
       pricing = [pc |-> "priced", priceData |-> priceData, usage |-> usage, quota |-> 0]

\* lines 199-209
ComputeQuota ==
    /\ pricing.pc = "priced"
    /\ pricing' = [pricing EXCEPT !.pc = "computed",
                                  !.quota = Quota(pricing.priceData, pricing.usage)]
    /\ UNCHANGED nonPricingVars

NextQuota == ComputeQuota

(* ==================== Gemini adaptor: GetRequestURL =================== *)
\* A model name is a sequence of one-character strings.
HasPrefix(s, prefix) ==
    Len(s) >= Len(prefix) /\ SubSeq(s, 1, Len(prefix)) = prefix
HasSuffix(s, suffix) ==
    Len(s) >= Len(suffix) /\ SubSeq(s, Len(s) - Len(suffix) + 1, Len(s)) = suffix
TrimSuffix(s, suffix) ==
    IF HasSuffix(s, suffix) THEN SubSeq(s, 1, Len(s) - Len(suffix)) ELSE s
\* the places where substr occurs in s
Occurrences(s, substr) ==
    {i \in 1..(Len(s) - Len(substr) + 1) : SubSeq(s, i, i + Len(substr) - 1) = substr}
Contains(s, substr) == Occurrences(s, substr) # {}
\* strings.Split(s, sep)[0]: s up to the first occurrence of sep
SplitHead(s, sep) ==
    IF Contains(s, sep)
      THEN SubSeq(s, 1, (CHOOSE i \in Occurrences(s, sep) :
                            \A j \in Occurrences(s, sep) : i <= j) - 1)
      ELSE s

DashThinkingDash == <<"-", "t", "h", "i", "n", "k", "i", "n", "g", "-">>
DashThinking == <<"-", "t", "h", "i", "n", "k", "i", "n", "g">>
DashNothinking == <<"-", "n", "o", "t", "h", "i", "n", "k", "i", "n", "g">>
Imagen == <<"i", "m", "a", "g", "e", "n">>
TextEmbedding == <<"t", "e", "x", "t", "-", "e", "m", "b", "e", "d", "d", "i", "n", "g">>
Embedding == <<"e", "m", "b", "e", "d", "d", "i", "n", "g">>
GeminiEmbedding == <<"g", "e", "m", "i", "n", "i", "-", "e", "m", "b", "e", "d", "d", "i", "n", "g">>

\* model names without a thinking suffix
BaseModelNames == {<<"g", "e", "m", "i", "n", "i", "-", "2", ".", "5">>,
                   <<"i", "m", "a", "g", "e", "n", "-", "3">>,
                   <<"t", "e", "x", "t", "-", "e", "m", "b", "e", "d", "d", "i", "n", "g", "-", "4">>,
                   <<"e", "m", "b", "e", "d", "d", "i", "n", "g", "-", "1">>,
                   <<"g", "e", "m", "i", "n", "i", "-", "e", "m", "b", "e", "d", "d", "i", "n", "g", "-", "1">>}
\* the budget of a "-thinking-<budget>" suffix
Budgets == {<<"0">>, <<"1", "0", "2", "4">>}
ThinkingSuffixes ==
    {DashThinkingDash \o b : b \in Budgets} \cup {DashThinking, DashNothinking}
\* info.UpstreamModelName values: plain, with one suffix, with two
UpstreamModelNames ==
    BaseModelNames
    \cup {b \o s : b \in BaseModelNames, s \in ThinkingSuffixes}
    \cup {<<"g", "e", "m", "i", "n", "i", "-", "2", ".", "5">> \o s \o t : s \in {DashThinking, DashNothinking},
                                              t \in {DashThinking, DashNothinking}}

\* lines 74-84: the UpstreamModelName GetRequestURL leaves in info
StripAlways(enabled, name) ==
    IF Contains(name, DashThinkingDash) THEN SplitHead(name, DashThinkingDash)
    ELSE IF HasSuffix(name, DashThinking) THEN TrimSuffix(name, DashThinking)
    ELSE IF HasSuffix(name, DashNothinking) THEN TrimSuffix(name, DashNothinking)
    ELSE name
StripThinking(enabled, name) ==
    IF ~enabled THEN name
    ELSE IF Contains(name, DashThinkingDash) THEN SplitHead(name, DashThinkingDash)
    ELSE IF HasSuffix(name, DashThinking) THEN TrimSuffix(name, DashThinking)
    ELSE IF HasSuffix(name, DashNothinking) THEN TrimSuffix(name, DashNothinking)
    ELSE name

\* model_setting.GetGeminiVersionSetting(name): a function of the name only
GetGeminiVersionSetting(name) == <<"version", name>>

\* fmt.Sprintf("%s/%s/models/%s:%s", info.BaseUrl, version, name, action)
Url(baseUrl, name, action) ==
    [BaseUrl |-> baseUrl, version |-> GetGeminiVersionSetting(name),
     model |-> name, action |-> action]

\* lines 86-102: the endpoint for the (stripped) model name
RequestURL(baseUrl, name, isStream) ==
    IF HasPrefix(name, Imagen) THEN Url(baseUrl, name, "predict")
    ELSE IF \/ HasPrefix(name, TextEmbedding)
            \/ HasPrefix(name, Embedding)
            \/ HasPrefix(name, GeminiEmbedding)
      THEN Url(baseUrl, name, "embedContent")
    ELSE Url(baseUrl, name, IF isStream THEN "streamGenerateContent?alt=sse"
                                        ELSE "generateContent")

\* most calls of GetRequestURL on one RelayInfo
MaxUrlCalls == 2

\* info.RelayMode: the native Gemini passthrough and two canonical modes
RelayModeGemini == "RelayModeGemini"
RelayModes == {RelayModeGemini, "RelayModeChatCompletions", "RelayModeEmbeddings"}

\* DoResponse, lines 171-195, with the model-name checks ahead of the relay mode
DoResponseByNameFirst(info) ==
    IF HasPrefix(info.UpstreamModelName, Imagen) THEN "GeminiImageHandler"
    ELSE IF \/ HasPrefix(info.UpstreamModelName, TextEmbedding)
            \/ HasPrefix(info.UpstreamModelName, Embedding)
            \/ HasPrefix(info.UpstreamModelName, GeminiEmbedding)
      THEN "GeminiEmbeddingHandler"
    ELSE IF info.RelayMode = RelayModeGemini
      THEN (IF info.IsStream THEN "GeminiTextGenerationStreamHandler"
                             ELSE "GeminiTextGenerationHandler")
    ELSE IF info.IsStream THEN "GeminiChatStreamHandler" ELSE "GeminiChatHandler"
\* DoResponse, lines 171-195: the handler the response is handed to
DoResponseHandler(info) ==
    IF info.RelayMode = RelayModeGemini
      THEN (IF info.IsStream THEN "GeminiTextGenerationStreamHandler"
                             ELSE "GeminiTextGenerationHandler")
    ELSE IF HasPrefix(info.UpstreamModelName, Imagen) THEN "GeminiImageHandler"
    ELSE IF \/ HasPrefix(info.UpstreamModelName, TextEmbedding)
            \/ HasPrefix(info.UpstreamModelName, Embedding)
            \/ HasPrefix(info.UpstreamModelName, GeminiEmbedding)
      THEN "GeminiEmbeddingHandler"
    ELSE IF info.IsStream THEN "GeminiChatStreamHandler" ELSE "GeminiChatHandler"

\* the conversion operations for capabilities the adaptor does not support:
\* what each call ends in
ConvertClaudeRequest == [request |-> "none", err |-> "none", panic |-> TRUE]
ConvertAudioRequest == [request |-> "nil", err |-> "not implemented", panic |-> FALSE]
ConvertRerankRequest == [request |-> "nil", err |-> "nil", panic |-> FALSE]
ConvertOpenAIResponsesRequest ==
    [request |-> "nil", err |-> "not implemented", panic |-> FALSE]
Unsupported == [Claude |-> ConvertClaudeRequest, Audio |-> ConvertAudioRequest,
                Rerank |-> ConvertRerankRequest,
                OpenAIResponses |-> ConvertOpenAIResponsesRequest]
NoConversion == [op |-> "none", request |-> "none", err |-> "none", panic |-> FALSE]

NoRelay == [pc |-> "none"]
IdleRelay == relay = NoRelay
\* a relay call has its RelayInfo; the thinking adapter setting is as configured
InitRelay ==
    \E name \in UpstreamModelNames, isStream \in BOOLEAN, enabled \in BOOLEAN,
       mode \in RelayModes :
       relay = [pc |-> "ready",
                ThinkingAdapterEnabled |-> enabled,
                info |-> [OriginModelName |-> name, UpstreamModelName |-> name,
                          BaseUrl |-> "base", IsStream |-> isStream,
                          RelayMode |-> mode],
                given |-> name,
                urls |-> <<>>,
                handlers |-> <<>>,
                conversion |-> NoConversion]

\* GetRequestURL(info), lines 72-103
GetRequestURL ==
    /\ relay.pc = "ready"
    /\ Len(relay.urls) < MaxUrlCalls
    /\ LET name == StripThinking(relay.ThinkingAdapterEnabled,
                                 relay.info.UpstreamModelName)
       IN relay' = [relay EXCEPT
                      !.info.UpstreamModelName = name,
                      !.urls = Append(@, RequestURL(relay.info.BaseUrl, name,
                                                    relay.info.IsStream))]
    /\ UNCHANGED nonRelayVars

\* DoResponse(c, resp, info), lines 171-195: the response of the relay call
\* is handed to a handler
DoResponse ==
    /\ relay.pc = "ready"
    /\ relay.handlers = <<>>
    /\ relay' = [relay EXCEPT !.handlers = Append(@, DoResponseHandler(relay.info))]
    /\ UNCHANGED nonRelayVars

\* the relay asks the adaptor for a conversion it does not support
ConvertUnsupported ==
    /\ relay.pc = "ready"
    /\ relay.conversion.op = "none"
    /\ \E op \in DOMAIN Unsupported :
         relay' = [relay EXCEPT
                     !.pc = IF Unsupported[op].panic THEN "panic" ELSE "ready",
                     !.conversion = [op |-> op, request |-> Unsupported[op].request,
                                     err |-> Unsupported[op].err,
                                     panic |-> Unsupported[op].panic]]
    /\ UNCHANGED nonRelayVars

NextRelay ==
    \/ GetRequestURL
    \/ DoResponse
    \/ ConvertUnsupported

(* ------- testChannel: routing of the test request (lines 59-156) ------- *)

GptFourOMini == <<"g", "p", "t", "-", "4", "o", "-", "m", "i", "n", "i">>
TextEmbeddingFour == <<"t", "e", "x", "t", "-", "e", "m", "b", "e", "d", "d", "i", "n", "g", "-", "4">>
MThreeE == <<"m", "3", "e", "-", "b">>
BgeM == <<"x", "-", "b", "g", "e", "-", "m">>
UpperEmbed == <<"E", "5", "-", "E", "m", "b", "e", "d">>
\* the model names of the tests: one chat model and four embedding models,
\* one for each disjunct of isEmbeddingModel
TestModelNames == {GptFourOMini, TextEmbeddingFour, MThreeE, BgeM, UpperEmbed}
EmptyName == <<>>

\* strings.ToLower over the letters of the names above
ToLower(s) ==
    [i \in 1..Len(s) |-> IF s[i] = "E" THEN "e" ELSE s[i]]

\* the closure isEmbeddingModel, lines 63-69
isEmbeddingModel(m) ==
    \/ Contains(ToLower(m), Embedding)
    \/ HasPrefix(m, <<"m", "3", "e">>)
    \/ Contains(m, <<"b", "g", "e", "-">>)
    \/ Contains(ToLower(m), <<"e", "m", "b", "e", "d">>)

ChannelTypeMokaAI == "ChannelTypeMokaAI"
RoutedChannelTypes == {ChannelTypeMokaAI, "ChannelTypeGemini"}
TestTypes == {"", "text", "json", "function"}
\* a nil *string, apart from every model name
NilString == <<"nil">>

\* lines 82-92: the model of the test when the caller passed none
FallbackModel(testModel, channel) ==
    IF testModel # EmptyName THEN testModel
    ELSE IF channel.TestModel # NilString /\ channel.TestModel # EmptyName
      THEN channel.TestModel
    ELSE IF Len(channel.Models) > 0 THEN channel.Models[1]
    ELSE GptFourOMini

\* the relay mode GenRelayInfo (line 116) reads off the path of the request
RelayModeOfPath(path) ==
    IF path = "/v1/embeddings" THEN "RelayModeEmbeddings" ELSE "RelayModeChatCompletions"

\* lines 62-73: the path of the test request, from the name the caller passed
RequestPath(testModel, channel) ==
    IF isEmbeddingModel(testModel) \/ channel.Type = ChannelTypeMokaAI
      THEN "/v1/embeddings" ELSE "/v1/chat/completions"

\* testChannel, lines 59-156, up to the conversion of the request:
\* `mapped` is the upstream name ModelMappedHelper leaves in info
Route(channel, testModel, testType, mapped) ==
    LET requestPath == RequestPath(testModel, channel)
        fallback == FallbackModel(testModel, channel)
        relayMode == RelayModeOfPath(requestPath)
        tested == IF mapped = EmptyName THEN fallback ELSE mapped
    IN [requestPath |-> requestPath,
        testType |-> IF testType = "" THEN "text" ELSE testType,
        RelayMode |-> relayMode,
        testModel |-> tested,
        \* buildTestRequest, lines 246-258: an embedding request carries Input
        input |-> isEmbeddingModel(tested),
        convert |-> IF relayMode = "RelayModeEmbeddings"
                      THEN "ConvertEmbeddingRequest" ELSE "ConvertOpenAIRequest"]

NoRoute == [pc |-> "none"]
IdleRoute == route = NoRoute
InitRoute ==
    \E testModel \in TestModelNames \cup {EmptyName},
       configured \in {NilString, EmptyName, GptFourOMini, TextEmbeddingFour},
       models \in {<<>>, <<GptFourOMini>>, <<MThreeE>>},
       type \in RoutedChannelTypes, testType \in TestTypes,
       mapped \in {EmptyName, BgeM} :
       route = [pc |-> "called",
                channel |-> [Type |-> type, TestModel |-> configured, Models |-> models],
                testModel |-> testModel, testType |-> testType, mapped |-> mapped,
                chosen |-> NoRoute]

\* one call of testChannel reaches the conversion of the request
RouteTest ==
    /\ route.pc = "called"
    /\ route' = [route EXCEPT !.pc = "converted",
                   !.chosen = Route(route.channel, route.testModel,
                                    route.testType, route.mapped)]
    /\ UNCHANGED nonRouteVars

NextRoute == RouteTest

(* ====================== Gemini prompt cache manager =================== *)
(* ------------------------------ bounds -------------------------------- *)
\* cache entries the upstream provider hands out before the model stops creating
MaxHandles == 2

\* relay requests of this gateway instance that call GetOrCreateGeminiCache
Procs == {"relay"}
\* a call of another gateway instance that shares the store
Peer == "peer"
CacheProcs == Procs \cup {Peer}

(* --------------------------- request inputs --------------------------- *)
\* A Go string is modelled as a sequence of runs [ch, n]: n copies of ch.
EmptyString == <<>>
Run(ch, n) == [ch |-> ch, n |-> n]
\* a text that strings.Split(text, " ") cuts into k pieces (k >= 1)
Pieces(k) == IF k = 1 THEN <<Run("a", 1)>> ELSE <<Run("a", 1), Run(" ", k - 1)>>

GeminiCacheMinTokenThreshold == 4096

Nil == [nil |-> TRUE]
Content(parts) == [Role |-> "user", Parts |-> parts]
Part(text) == [Text |-> text]

\* request.SystemInstructions values the relay can hand over
Prefixes == <<
    Nil,
    Content(<<>>),
    Content(<<Part(Pieces(GeminiCacheMinTokenThreshold - 1))>>),
    Content(<<Part(Pieces(GeminiCacheMinTokenThreshold))>>),
    Content(<<Part(EmptyString), Part(Pieces(GeminiCacheMinTokenThreshold - 1)),
              Part(Pieces(2))>>) >>
Models == {"gemini-1.5-pro", "models/gemini-1.5-flash"}
ChannelIDs == {1, 2}
Requests == [model : Models, prefix : DOMAIN Prefixes]
SystemInstructions(request) == Prefixes[request.prefix]

(* ---------------------------- pure helpers ---------------------------- *)
RECURSIVE Spaces(_)
\* number of " " separators in a string
Spaces(text) ==
    IF text = <<>> THEN 0
    ELSE (IF Head(text).ch = " " THEN Head(text).n ELSE 0) + Spaces(Tail(text))

\* len(strings.Split(text, " "))
SplitLen(text) == Spaces(text) + 1

RECURSIVE SumParts(_)
SumParts(parts) ==
    IF parts = <<>> THEN 0
    ELSE (IF Head(parts).Text # EmptyString THEN SplitLen(Head(parts).Text) ELSE 0)
         + SumParts(Tail(parts))

\* defined for a non-nil content; on nil the range over content.Parts panics
CountTokensFromParts(content) == SumParts(content.Parts)

\* json.Marshal of a struct or map: the fields in order, as key/value pairs
MarshalContent(system) == << <<"role", system.Role>>, <<"parts", system.Parts>> >>
GetMD5Hash(bytes) == <<"md5", bytes>>

HashSystemInstructions(system) ==
    IF system = Nil THEN EmptyString ELSE GetMD5Hash(MarshalContent(system))

\* fmt.Sprintf("gemini_cache:%s", hash)
RedisKey(request) == <<"gemini_cache", HashSystemInstructions(SystemInstructions(request))>>
\* the keys this code ever reads or writes: those of requests past the threshold
Keys == {RedisKey(r) : r \in {q \in Requests :
            /\ SystemInstructions(q) # Nil
            /\ CountTokensFromParts(SystemInstructions(q)) >= GeminiCacheMinTokenThreshold}}

\* json.Marshal(map{"cache_name": newID, "channel_id": channelID})
MarshalEnvelope(newID, channelID) ==
    << <<"cache_name", newID>>, <<"channel_id", channelID>> >>
\* json.Unmarshal into struct{CacheName, ChannelID}; an absent field stays zero
UnmarshalCacheName(val) ==
    IF \E i \in DOMAIN val : val[i][1] = "cache_name"
      THEN val[CHOOSE i \in DOMAIN val : val[i][1] = "cache_name"][2]
      ELSE EmptyString

\* the handle name the provider returns for its k-th cachedContents entry
HandleName(k) == <<"cachedContents", k>>
Handles == {HandleName(k) : k \in 1..MaxHandles}

\* strings.HasPrefix(model, "models/") for the model names of Models
HasModelsPrefix(model) == model = "models/gemini-1.5-flash"
\* the Model field of the create request: "models/" is put in front when missing
UpstreamModel(model) == IF HasModelsPrefix(model) THEN <<model>> ELSE <<"models/", model>>
\* the GeminiCachedContentRequest CreateGeminiCache posts for a relay request
NoCacheReq == [Model |-> <<>>, SystemInstruction |-> Nil]
CacheReq(request) ==
    [Model |-> UpstreamModel(request.model),
     SystemInstruction |-> SystemInstructions(request)]

(* ---------------------------- state: cache ---------------------------- *)

NoRequest == [model |-> "", prefix |-> 0]
NoResult == [handle |-> EmptyString, created |-> FALSE, tokens |-> -1, err |-> FALSE]
IdleProc == [pc |-> "idle", request |-> NoRequest, channelID |-> 0, tokenCount |-> 0,
             getErr |-> "none", val |-> EmptyString, cached |-> EmptyString,
             lookup |-> "none", create |-> "none", newID |-> EmptyString,
             set |-> "none", ret |-> NoResult]

InitCache ==
    /\ EnableCache \in BOOLEAN
    /\ RedisEnabled \in BOOLEAN
    /\ RDB = [k \in Keys |-> EmptyString]
    /\ upstream = {}
    /\ created = 0
    /\ cachedContents = [h \in Handles |-> NoCacheReq]
    /\ proc = [p \in CacheProcs |-> IdleProc]

(* ----------------------- return values of the call -------------------- *)
\* return "", false, 0, nil
EmptyResult == [handle |-> EmptyString, created |-> FALSE, tokens |-> 0, err |-> FALSE]
\* return cached.CacheName, false, 0, nil
HitResult(name) == [handle |-> name, created |-> FALSE, tokens |-> 0, err |-> FALSE]
\* return "", false, 0, err
ErrResult == [handle |-> EmptyString, created |-> FALSE, tokens |-> 0, err |-> TRUE]
\* return newID, true, tokenCount, nil
CreatedResultNoTokens(newID, tokenCount) ==
    [handle |-> newID, created |-> TRUE, tokens |-> 0, err |-> FALSE]
CreatedResult(newID, tokenCount) ==
    [handle |-> newID, created |-> TRUE, tokens |-> tokenCount, err |-> FALSE]

(* ------------------------- ShouldEnableGeminiCache -------------------- *)
ShouldEnableOffByOne(model, tokenCount) ==
    IF ~EnableCache THEN FALSE
    ELSE IF tokenCount <= GeminiCacheMinTokenThreshold THEN FALSE
    ELSE TRUE
ShouldEnableGeminiCache(model, tokenCount) ==
    IF ~EnableCache THEN FALSE
    ELSE IF tokenCount < GeminiCacheMinTokenThreshold THEN FALSE
    ELSE TRUE

(* -------------------------- branch conditions ------------------------- *)
\* where the call goes after RDB.Get: "if err == nil && val != """
AfterGetFatal(val, err) ==
    IF err = "unavailable" THEN [pc |-> "done", ret |-> ErrResult]
    ELSE IF err = "nil" /\ val # EmptyString THEN [pc |-> "lookup", ret |-> NoResult]
    ELSE [pc |-> "create", ret |-> NoResult]
AfterGet(val, err) ==
    IF err = "nil" /\ val # EmptyString THEN [pc |-> "lookup", ret |-> NoResult]
    ELSE [pc |-> "create", ret |-> NoResult]

\* LookupGeminiCacheByID: (exists, err) from the transport outcome
LookupGeminiCacheByID(status) ==
    IF status = "transportErr" THEN [exists |-> FALSE, err |-> TRUE]
    ELSE IF status = "200" THEN [exists |-> TRUE, err |-> FALSE]
    ELSE IF status = "404" THEN [exists |-> FALSE, err |-> FALSE]
    ELSE [exists |-> FALSE, err |-> TRUE]

\* "if exists, err := LookupGeminiCacheByID(...); err == nil && exists"
ConfirmedIgnoringExists(exists, err) == ~err
ConfirmedNever(exists, err) == FALSE
Confirmed(exists, err) == ~err /\ exists

\* the result once the store write has been tried: its error is discarded
AfterSetFatal(newID, tokenCount, setErr) ==
    IF setErr THEN ErrResult ELSE CreatedResult(newID, tokenCount)
AfterSet(newID, tokenCount, setErr) == CreatedResult(newID, tokenCount)

(* ----------------------- GetOrCreateGeminiCache ----------------------- *)
\* lines 42-45: val, err := common.RDB.Get(ctx, redisKey).Result(), the
\* json.Unmarshal of val, and the branch on "err == nil && val != """
StoreGet(call, reachable) ==
    LET stored == RDB[RedisKey(call.request)]
        err == IF ~reachable THEN "unavailable"
               ELSE IF stored = EmptyString THEN "redis.Nil" ELSE "nil"
        val == IF err = "nil" THEN stored ELSE EmptyString
        next == AfterGet(val, err)
    IN [call EXCEPT !.pc = next.pc, !.ret = next.ret, !.getErr = err,
                    !.val = val, !.cached = UnmarshalCacheName(val)]

\* lines 30-45: count tokens, eligibility, hash and key, and the store read
\* (the first access to shared state)
Begin(p) ==
    /\ proc[p].pc = "idle"
    /\ \E request \in Requests, channelID \in ChannelIDs, reachable \in BOOLEAN :
         LET si == SystemInstructions(request)
             call == [IdleProc EXCEPT !.request = request, !.channelID = channelID]
         IN IF si = Nil
              THEN \* CountTokensFromParts dereferences the nil pointer
                   proc' = [proc EXCEPT ![p] = [call EXCEPT !.pc = "panic"]]
              ELSE LET tokenCount == CountTokensFromParts(si)
                       c2 == [call EXCEPT !.tokenCount = tokenCount]
                   IN IF ~ShouldEnableGeminiCache(request.model, tokenCount)
                        THEN proc' = [proc EXCEPT ![p] =
                                        [c2 EXCEPT !.pc = "done", !.ret = EmptyResult]]
                        ELSE IF RedisEnabled
                          THEN proc' = [proc EXCEPT ![p] = StoreGet(c2, reachable)]
                          ELSE proc' = [proc EXCEPT ![p] = [c2 EXCEPT !.pc = "create"]]
    /\ UNCHANGED <<EnableCache, RedisEnabled, RDB, upstream, created, cachedContents, nonCacheVars>>

\* LookupGeminiCacheByID(apiKey, cached.CacheName) and the branch on it
Lookup(p) ==
    /\ proc[p].pc = "lookup"
    /\ \E status \in {"transportErr", "200", "404", "500"} :
         /\ status = "200" => proc[p].cached \in upstream
         /\ status = "404" => proc[p].cached \notin upstream
         /\ LET r == LookupGeminiCacheByID(status)
            IN IF Confirmed(r.exists, r.err)
                 THEN proc' = [proc EXCEPT ![p].pc = "done", ![p].lookup = status,
                                           ![p].ret = HitResult(proc[p].cached)]
                 ELSE proc' = [proc EXCEPT ![p].pc = "create", ![p].lookup = status]
    /\ UNCHANGED <<EnableCache, RedisEnabled, RDB, upstream, created, cachedContents, nonCacheVars>>

\* newID, err := CreateGeminiCache(...) succeeds
CreateOk(p) ==
    /\ proc[p].pc = "create"
    /\ created < MaxHandles
    /\ LET newID == HandleName(created + 1)
       IN /\ created' = created + 1
          /\ upstream' = upstream \cup {newID}
          /\ cachedContents' = [cachedContents EXCEPT ![newID] = CacheReq(proc[p].request)]
          /\ IF RedisEnabled
               THEN proc' = [proc EXCEPT ![p].pc = "set", ![p].create = "ok",
                                         ![p].newID = newID]
               ELSE proc' = [proc EXCEPT ![p].pc = "done", ![p].create = "ok",
                                         ![p].newID = newID,
                                         ![p].ret = CreatedResult(newID, proc[p].tokenCount)]
    /\ UNCHANGED <<EnableCache, RedisEnabled, RDB, nonCacheVars>>

\* CreateGeminiCache fails (transport error or non-200): return "", false, 0, err
CreateErr(p) ==
    /\ proc[p].pc = "create"
    /\ \E why \in {"transportErr", "non200"} :
         proc' = [proc EXCEPT ![p].pc = "done", ![p].create = why, ![p].ret = ErrResult]
    /\ UNCHANGED <<EnableCache, RedisEnabled, RDB, upstream, created, cachedContents, nonCacheVars>>

\* _ = common.RDB.Set(ctx, redisKey, jsonValue, time.Hour).Err(); return newID, ...
StoreSet(p) ==
    /\ proc[p].pc = "set"
    /\ \E setErr \in BOOLEAN :
         LET key == RedisKey(proc[p].request)
             pr == [proc EXCEPT ![p].pc = "done",
                                ![p].set = IF setErr THEN "err" ELSE "ok",
                                ![p].ret = AfterSet(proc[p].newID, proc[p].tokenCount, setErr)]
         IN IF setErr
              THEN /\ RDB' = RDB
                   /\ proc' = pr
              ELSE /\ RDB' = [RDB EXCEPT ![key] =
                                MarshalEnvelope(proc[p].newID, proc[p].channelID)]
                   /\ proc' = pr
    /\ UNCHANGED <<EnableCache, RedisEnabled, upstream, created, cachedContents, nonCacheVars>>

\* the caller takes the result (or the panic unwinds); the task is free again
Return(p) ==
    /\ proc[p].pc \in {"done", "panic"}
    /\ proc' = [proc EXCEPT ![p] = IdleProc]
    /\ UNCHANGED <<EnableCache, RedisEnabled, RDB, upstream, created, cachedContents, nonCacheVars>>

(* ------------------------------ environment --------------------------- *)
\* the store drops a mapping whose time.Hour TTL ran out
RedisExpire(key) ==
    /\ RDB[key] # EmptyString
    /\ RDB' = [RDB EXCEPT ![key] = EmptyString]
    /\ UNCHANGED <<EnableCache, RedisEnabled, upstream, created, cachedContents, proc, nonCacheVars>>

\* the provider drops an entry (its "600s" Ttl ran out, or it was evicted)
UpstreamExpire(name) ==
    /\ name \in upstream
    /\ upstream' = upstream \ {name}
    /\ cachedContents' = [cachedContents EXCEPT ![name] = NoCacheReq]
    /\ UNCHANGED <<EnableCache, RedisEnabled, RDB, created, proc, nonCacheVars>>

\* another gateway instance sharing the store is inside GetOrCreateGeminiCache
\* for a request of its own that has the same key and reaches line 64,
\* newID, err := CreateGeminiCache(...): on success the provider holds the new
\* entry while the store is as it was; on failure the peer returns the error
\* and nothing has changed
PeerCreate(key) ==
    /\ EnableCache
    /\ RedisEnabled
    /\ proc[Peer].pc = "idle"
    /\ \E request \in {r \in Requests : SystemInstructions(r) # Nil /\ RedisKey(r) = key},
          outcome \in {"ok", "transportErr", "non200"} :
         IF outcome = "ok" /\ created < MaxHandles
           THEN LET newID == HandleName(created + 1)
                IN /\ created' = created + 1
                   /\ upstream' = upstream \cup {newID}
                   /\ cachedContents' = [cachedContents EXCEPT
                                           ![newID] = CacheReq(request)]
                   /\ proc' = [proc EXCEPT ![Peer] =
                                 [IdleProc EXCEPT !.pc = "set", !.request = request,
                                                  !.create = "ok", !.newID = newID]]
           ELSE UNCHANGED <<upstream, created, cachedContents, proc>>
    /\ UNCHANGED <<EnableCache, RedisEnabled, RDB, nonCacheVars>>

\* the peer's lines 69-79: "_ = common.RDB.Set(...).Err()", whose error is
\* dropped, and its return; the last write wins
PeerSet ==
    /\ proc[Peer].pc = "set"
    /\ \E channelID \in ChannelIDs, setErr \in BOOLEAN :
         RDB' = IF setErr THEN RDB
                ELSE [RDB EXCEPT ![RedisKey(proc[Peer].request)] =
                        MarshalEnvelope(proc[Peer].newID, channelID)]
    /\ proc' = [proc EXCEPT ![Peer] = IdleProc]
    /\ UNCHANGED <<EnableCache, RedisEnabled, upstream, created, cachedContents, nonCacheVars>>

NextCache ==
    \/ \E p \in Procs : Begin(p)
    \/ \E p \in Procs : Lookup(p)
    \/ \E p \in Procs : CreateOk(p)
    \/ \E p \in Procs : CreateErr(p)
    \/ \E p \in Procs : StoreSet(p)
    \/ \E p \in Procs : Return(p)
    \/ \E key \in Keys : RedisExpire(key)
    \/ \E name \in Handles : UpstreamExpire(name)
    \/ \E key \in Keys : PeerCreate(key)
    \/ PeerSet

(* ------------------ concurrent calls for the same hash ---------------- *)
\* two relay requests of this instance inside GetOrCreateGeminiCache at once
RaceProcs == {"relay", "other"}
\* the calls are for one model and one system instruction past the threshold,
\* and so for one hash and one store key, over one channel
RaceRequest == [model |-> "gemini-1.5-pro", prefix |-> 4]
RaceChannel == 1
RaceKey == RedisKey(RaceRequest)

InitRace ==
    /\ EnableCache = TRUE
    /\ RedisEnabled \in BOOLEAN
    /\ RDB = [k \in Keys |-> EmptyString]
    /\ upstream = {}
    /\ created = 0
    /\ cachedContents = [h \in Handles |-> NoCacheReq]
    /\ proc = [p \in RaceProcs |-> IdleProc]

\* a call for the shared hash enters GetOrCreateGeminiCache
BeginSameHash(p) ==
    /\ Begin(p)
    /\ proc'[p].request = RaceRequest
    /\ proc'[p].channelID = RaceChannel

NextRace ==
    \/ \E p \in RaceProcs : BeginSameHash(p)
    \/ \E p \in RaceProcs : Lookup(p)
    \/ \E p \in RaceProcs : CreateOk(p)
    \/ \E p \in RaceProcs : CreateErr(p)
    \/ \E p \in RaceProcs : StoreSet(p)
    \/ \E p \in RaceProcs : Return(p)
    \/ RedisExpire(RaceKey)
    \/ \E name \in Handles : UpstreamExpire(name)

(* ---------------------------- specifications -------------------------- *)
\* the handlers modelled as functions have no call in progress
IdleCalls == IdleImage /\ IdlePricing /\ IdleRelay /\ IdleRoute
Init == InitHealth /\ InitCache /\ InitLoop /\ InitSingle /\ IdleCalls

\* the health monitor alone
SpecHealth == Init /\ [][NextHealth]_vars
\* the prompt cache manager alone
SpecCache == Init /\ [][NextCache]_vars

\* two concurrent calls of GetOrCreateGeminiCache for the same hash
InitRacing == InitHealth /\ InitRace /\ InitLoop /\ InitSingle /\ IdleCalls
SpecRace == InitRacing /\ [][NextRace]_vars

\* caching switched off and the store absent: the cache manager at rest
IdleCache == InitCache /\ ~EnableCache /\ ~RedisEnabled
\* one accepted batch after another, each iteration in detail
QuietCore == InitHealth /\ IdleCache /\ InitLoop /\ InitSingle
InitQuiet == QuietCore /\ IdleCalls
SpecBatch == InitQuiet /\ [][NextBatch]_vars
\* TestChannel requests
SpecSingle == InitQuiet /\ [][NextSingle]_vars
\* GeminiImageHandler on every upstream response of the bounded set
InitResponses == QuietCore /\ InitImage /\ IdlePricing /\ IdleRelay /\ IdleRoute
SpecImage == InitResponses /\ [][NextImage]_vars
\* the quota computation on every usage and price data of the bounded sets
InitQuota == QuietCore /\ IdleImage /\ InitPricing /\ IdleRelay /\ IdleRoute
SpecQuota == InitQuota /\ [][NextQuota]_vars
\* the Gemini adaptor on every RelayInfo of the bounded set
InitAdaptor == QuietCore /\ IdleImage /\ IdlePricing /\ InitRelay /\ IdleRoute
SpecAdaptor == InitAdaptor /\ [][NextRelay]_vars

\* the routing of testChannel on every call of the bounded set
InitRouting == QuietCore /\ IdleImage /\ IdlePricing /\ IdleRelay /\ InitRoute
SpecRoute == InitRouting /\ [][NextRoute]_vars

(* ======================= claims: single-flight ======================== *)
Started == {c \in Callers : inv[c].pc \in {"unlock", "load", "spawn"}}

\* C1: under every interleaving of concurrent testAllChannels invocations, an
\* invocation that observes the running flag set is on its way out with the
\* "already running" error and starts no batch, and at most one batch (started
\* or about to be started) exists at any time.
C1_SingleFlight ==
    /\ Cardinality(InFlight) <= 1
    /\ Cardinality(InFlight) + Cardinality(Started) <= 1
    /\ \A c \in Callers : inv[c].observed => inv[c].pc = "rejectUnlock"
    /\ \A c \in Callers : inv[c].pc = "rejectUnlock" => inv[c].observed

C1_Witness ==
    \E c \in Callers : inv[c].observed /\ InFlight # {}

\* C2: the step that ends a batch goroutine, after a normal run or after a
\* panic, leaves testAllChannelsRunning false, so the next invocation passes
\* the check.
C2_ReleasedAtEnd ==
    [][\A b \in Slots :
         (batch[b].pc # "none" /\ batch'[b].pc = "none")
            => ~testAllChannelsRunning']_vars

C2_Witness ==
    /\ lastEnd = "panic"
    /\ ~testAllChannelsRunning
    /\ \E c \in Callers : inv[c].pc = "set"

\* C3: on every exit path after the flag was set the flag is reset: the flag
\* is never true while no batch is in flight and no invocation is between
\* setting it and starting its batch.
C3_FlagNeverOrphaned ==
    testAllChannelsRunning =>
        (InFlight # {} \/ \E c \in Callers : inv[c].pc \in {"unlock", "load", "spawn"})

(* ========================= claims: prompt cache ======================= *)
Done == {p \in Procs : proc[p].pc = "done"}
\* the store held a handle for the call's hash and the read returned it
GotHandle(p) == proc[p].getErr = "nil" /\ proc[p].cached # EmptyString
\* the call was past the eligibility check (lines 31-36)
Eligible(p) == EnableCache /\ proc[p].tokenCount >= GeminiCacheMinTokenThreshold
\* word counts of the entries of Prefixes, stated independently (nil has none)
ExpectedTokens == <<0, 0, GeminiCacheMinTokenThreshold - 1, GeminiCacheMinTokenThreshold,
                    GeminiCacheMinTokenThreshold + 1>>

\* C4: when the store returned a handle whose existence check did not succeed
\* (not found, or failed), the call went on to the upstream create and never
\* returns the unverified handle: on a successful create it returns the new
\* handle. A returned handle that this call did not create is the very handle
\* whose existence check answered 200 during this call.
C4_NoUnverifiedReuse ==
    \A p \in Done :
       /\ (proc[p].ret.handle # EmptyString /\ ~proc[p].ret.created)
             => /\ proc[p].lookup = "200"
                /\ GotHandle(p)
                /\ proc[p].ret.handle = proc[p].cached
       /\ (GotHandle(p) /\ proc[p].lookup # "200")
             => /\ proc[p].lookup \in {"404", "transportErr", "500"}
                /\ proc[p].create # "none"
                /\ proc[p].ret.handle # proc[p].cached
                /\ proc[p].create = "ok"
                      => /\ proc[p].ret.handle = proc[p].newID
                         /\ proc[p].ret.created

C4_Witness ==
    \E p \in Done :
       /\ GotHandle(p)
       /\ proc[p].lookup = "404"
       /\ proc[p].ret.created
       /\ proc[p].ret.handle = proc[p].newID
       /\ proc[p].newID # proc[p].cached

\* C5 as stated: a call that found the mapping stored when it started, made
\* while the mapping stays in place and the mapped handle still exists
\* upstream, returns that handle with created=false, without create or store
\* write (stated for the calls that return without error).
C5_HitWheneverMappedAndAlive ==
    \A p \in Done :
       (/\ RedisEnabled
        /\ ~proc[p].ret.err
        /\ GotHandle(p)
        /\ proc[p].cached \in upstream
        /\ UnmarshalCacheName(RDB[RedisKey(proc[p].request)]) = proc[p].cached)
          => /\ proc[p].ret = HitResult(proc[p].cached)
             /\ proc[p].create = "none"
             /\ proc[p].set = "none"

\* C5 amended: with the store enabled, a call whose store read returns the
\* stored mapping and whose existence check confirms the mapped handle returns
\* that same handle with created=false and performs no upstream create and no
\* store write.
C5_HitWhenConfirmed ==
    \A p \in Done :
       (GotHandle(p) /\ proc[p].lookup = "200")
          => /\ RedisEnabled
             /\ proc[p].cached \in Handles
             /\ proc[p].ret = HitResult(proc[p].cached)
             /\ proc[p].create = "none"
             /\ proc[p].set = "none"

C5_Witness ==
    \E p \in Done :
       /\ GotHandle(p)
       /\ proc[p].lookup = "200"
       /\ proc[p].ret.handle = proc[p].cached
       /\ ~proc[p].ret.created
       /\ UnmarshalCacheName(RDB[RedisKey(proc[p].request)]) = proc[p].cached

\* C6: for a cache-eligible request, a disabled store, a store error or a
\* missing entry is not fatal: the call reaches the upstream create, and any
\* error it returns comes from that create.
C6_StoreMissNotFatal ==
    \A p \in Procs :
       (/\ proc[p].pc \in {"create", "set", "done"}
        /\ Eligible(p)
        /\ (~RedisEnabled \/ proc[p].getErr \in {"unavailable", "redis.Nil"}))
          => /\ proc[p].lookup = "none"
             /\ proc[p].pc = "create" \/ proc[p].create # "none"
             /\ proc[p].ret.err => proc[p].create \in {"transportErr", "non200"}

C6_Witness ==
    \E p \in Done :
       /\ proc[p].getErr = "unavailable"
       /\ proc[p].create = "ok"
       /\ ~proc[p].ret.err

\* C7: no cache-layer failure is surfaced: every return carries a nil error.
C7_NoErrorSurfaced ==
    \A p \in Done : ~proc[p].ret.err

\* C8: when the create succeeded and the store write failed, the call returns
\* the new handle with created=true and a nil error; the store write is tried
\* only after a successful create.
C8_SetFailureAbsorbed ==
    \A p \in Procs :
       /\ (proc[p].pc = "set" \/ proc[p].set # "none") => proc[p].create = "ok"
       /\ (proc[p].pc = "done" /\ proc[p].set = "err")
             => /\ proc[p].ret.handle = proc[p].newID
                /\ proc[p].newID \in Handles
                /\ proc[p].ret.created
                /\ ~proc[p].ret.err

C8_Witness ==
    \E p \in Done :
       /\ proc[p].set = "err"
       /\ proc[p].ret.created
       /\ proc[p].ret.handle = proc[p].newID

\* C9: created=true exactly when this call performed a successful upstream
\* create, and then estimatedTokens is the token estimate of the prefix (at
\* least 4096); every other return has created=false and estimatedTokens = 0.
C9_CreatedAndTokens ==
    \A p \in Done :
       /\ proc[p].ret.created <=> proc[p].create = "ok"
       /\ proc[p].ret.created
             => /\ proc[p].ret.tokens = ExpectedTokens[proc[p].request.prefix]
                /\ proc[p].ret.tokens >= GeminiCacheMinTokenThreshold
                /\ proc[p].ret.handle = proc[p].newID
       /\ ~proc[p].ret.created => proc[p].ret.tokens = 0

C9_Witness ==
    \E p \in Done :
       /\ proc[p].ret.created
       /\ proc[p].ret.tokens = GeminiCacheMinTokenThreshold + 1

\* C10: ShouldEnableGeminiCache is false when caching is disabled or the
\* estimate is below 4096 and true when caching is enabled and the estimate
\* is at least 4096 (4096 itself enables); a request it rejects gets the
\* empty handle with no store access and no upstream call.
C10_Threshold ==
    \A p \in Procs :
       proc[p].pc \notin {"idle", "panic"} =>
          /\ proc[p].tokenCount = ExpectedTokens[proc[p].request.prefix]
          /\ ShouldEnableGeminiCache(proc[p].request.model, proc[p].tokenCount)
               = Eligible(p)
          /\ ~Eligible(p)
               => /\ proc[p].pc = "done"
                  /\ proc[p].ret = EmptyResult
                  /\ proc[p].getErr = "none"
                  /\ proc[p].lookup = "none"
                  /\ proc[p].create = "none"
          /\ Eligible(p)
               => ~(proc[p].pc = "done" /\ proc[p].getErr = "none"
                                        /\ proc[p].create = "none")

C10_Witness ==
    \E p \in Done :
       /\ proc[p].tokenCount = GeminiCacheMinTokenThreshold
       /\ proc[p].ret.created

(* ================== claims: what a shared handle caches ================ *)
\* C11: the shared-store key is determined by the model and by the whole
\* reusable prefix that CreateGeminiCache sends upstream, so a handle returned
\* with created=false (and still held by the provider) was created for the same
\* model and the same cached content as the request that receives it.
C11_HitIsForSameModelAndContent ==
    \A p \in Done :
       (/\ proc[p].ret.handle # EmptyString
        /\ ~proc[p].ret.created
        /\ proc[p].ret.handle \in upstream)
       => cachedContents[proc[p].ret.handle] = CacheReq(proc[p].request)

(* ======================== claims: the batch loop ====================== *)
\* the current iteration has its test result and its decisions
Decided == loop.cur.milliseconds >= 0

\* C12: a batch tests every channel of its snapshot exactly once and in list
\* order, whatever each test gives (success, API error, local error, latency
\* breach): what has been tested is always an initial part of the snapshot,
\* it grows by the channel of each iteration, and a batch that has run to its
\* end has tested the whole snapshot. (It holds in every batch in which the
\* calls of lines 439 and 448 return; a call that panics on the nil context
\* ends the batch before the later channels.)
C12_EveryChannelOnceInOrder ==
    /\ Len(loop.tested) <= Len(loop.channels)
    /\ loop.tested = SubSeq(loop.channels, 1, Len(loop.tested))
    /\ loop.pc = "range" => Len(loop.tested) = loop.idx - 1
    /\ loop.pc \in {"testing", "act", "sleep"} => Len(loop.tested) = loop.idx
    /\ loop.pc = "done" => loop.tested = loop.channels

\* C13: within a batch at most one channel test is in flight, and the test of
\* a channel starts only after the test before it has returned, its response
\* time has been persisted and the pacing sleep has elapsed.
C13_OneTestAtATime ==
    /\ [](Cardinality(loop.inTest) <= 1)
    /\ [][(loop.pc # "testing" /\ loop'.pc = "testing")
            => /\ loop.inTest = {}
               /\ loop.tested # <<>>
                    => loop.since = {"returned", "persisted", "slept"}]_vars

C13_Witness ==
    /\ loop.pc = "testing"
    /\ loop.idx = 2
    /\ loop.inTest = {2}

\* C14: the disable action is invoked for a channel exactly when its snapshot
\* status is enabled, its auto-ban flag is set and the outcome is ban-worthy:
\* the classifier marks the test's API error ban-worthy, or, that not being
\* so, automatic disable is configured and the elapsed milliseconds are
\* strictly above the threshold (configured seconds times 1000, 10000000 when
\* that is 0). A successful test is promoted too; without automatic disable
\* configured nothing is. (It holds in every iteration in which the call of
\* line 439 returns; a call that panics on the nil context of a local failure
\* with a promoted latency leaves the disable uninvoked.)
C14_DisableIff ==
    Decided =>
      LET cur == loop.cur
          classified == cur.result.newAPIError /\ cur.banAnswer = "yes"
          converted == (loop.threshold.num * 1000) \div loop.threshold.den
          threshold == IF converted = 0 THEN DefaultDisableThreshold ELSE converted
          banWorthy == \/ classified
                       \/ /\ ~classified
                          /\ cur.autoDisable
                          /\ cur.milliseconds > threshold
      IN cur.disable <=> (/\ cur.status = ChannelStatusEnabled
                          /\ cur.autoBan
                          /\ banWorthy)

\* C15: the enable action is invoked for a channel exactly when its snapshot
\* status is not enabled and the re-enable predicate holds, the predicate
\* being asked about the resulting API error (nil, the test's API error, or
\* the timeout error of the latency promotion) and the channel status. (It
\* holds in every iteration in which the call of line 448 returns; a call that
\* panics on the nil context of a local failure leaves the enable uninvoked.)
C15_EnableIff ==
    Decided =>
      LET cur == loop.cur
          classified == cur.result.newAPIError /\ cur.banAnswer = "yes"
          promoted == /\ ~classified
                      /\ cur.autoDisable
                      /\ cur.milliseconds > loop.disableThreshold
          resulting == IF promoted THEN "timeout"
                       ELSE IF cur.result.newAPIError THEN "api" ELSE "nil"
      IN /\ cur.enable <=> (/\ cur.status # ChannelStatusEnabled
                            /\ cur.enableAnswer = "yes")
         /\ cur.status # ChannelStatusEnabled => cur.enableArg = resulting
         /\ cur.status = ChannelStatusEnabled => cur.enableAnswer = "notAsked"

\* C16: the disable action and the enable action are both fire-and-forget:
\* once an iteration has made its decisions the loop goes on to persist the
\* response time whether or not an action it invoked is still running, so a
\* slow or blocked disable or enable does not delay the batch.
C16_ActionsNeverDelayLoop ==
    (loop.pc = "act" /\ actions # {}) => ENABLED BatchPersist

\* C17: for every channel whose iteration completes, the measured elapsed time
\* is persisted on the channel exactly once, whether the test succeeded or
\* failed and whether or not disable or enable was invoked.
C17_PersistedOncePerIteration ==
    /\ \A i \in 1..Len(loop.persisted) :
          i <= Len(loop.channels) /\ loop.persisted[i][1] = loop.channels[i]
    /\ loop.pc \in {"range", "done"} => Len(loop.persisted) = loop.idx - 1
    /\ loop.pc \in {"testing", "act"} => Len(loop.persisted) = loop.idx - 1
    /\ loop.pc = "sleep" =>
          /\ Len(loop.persisted) = loop.idx
          /\ loop.persisted[loop.idx] = <<Channel(loop), loop.cur.milliseconds>>

C17_Witness ==
    /\ loop.pc = "sleep"
    /\ loop.idx = 2
    /\ loop.cur.result.localErr
    /\ loop.cur.disable
    /\ Len(loop.persisted) = 2

(* ====================== claims: single channel test =================== *)
\* C18: a TestChannel request that resolves to a channel runs testChannel
\* exactly once (a request that does not runs it not at all), invokes neither
\* the disable nor the enable action and leaves the single-flight flag and
\* its mutex alone; it schedules the response-time update only when the test
\* succeeded, and a failed test changes no channel state.
C18_SingleTestFrame ==
    [][single' # single =>
         LET call == single'
             resolved == call.response.error \notin {"badId", "notFound"}
             succeeded == resolved /\ ~call.result.localErr /\ ~call.result.newAPIError
         IN /\ call.tests = IF resolved THEN 1 ELSE 0
            /\ UNCHANGED <<actions, loop, testAllChannelsRunning, testAllChannelsLock, batch>>
            /\ call.scheduled <=> succeeded
            /\ call.response.success <=> succeeded
            /\ succeeded => updates' = updates \cup {<<call.channel, call.milliseconds>>}
            /\ ~succeeded => updates' = updates]_vars

C18_Witness ==
    /\ single.pc = "done"
    /\ single.site = "doResponse"
    /\ single.tests = 1
    /\ ~single.scheduled
    /\ single.response.time = 0
    /\ updates = {}

(* ===================== claims: the accepted trigger =================== *)
\* C19: an accepted full-pool trigger returns success without waiting for any
\* channel test: testAllChannels returns nil at the moment it has handed the
\* closure to the pool, when the batch has not yet tested a channel, and the
\* end of the batch changes nothing the caller holds.
C19_ReturnsBeforeAnyTest ==
    /\ [][\A c \in Callers :
            (inv[c].pc = "spawn" /\ inv'[c].pc = "idle")
            => /\ inv'[c].result = "nil"
               /\ \E b \in Slots :
                    /\ batch[b].pc = "none"
                    /\ batch'[b].pc = "loop"
                    /\ batch'[b].idx = 1
                    /\ batch'[b].channels = inv[c].channels]_vars
    /\ [][(\E b \in Slots : batch[b].pc # "none" /\ batch'[b].pc = "none")
            => inv' = inv]_vars

C19_Witness ==
    \E c \in Callers, b \in Slots :
       /\ inv[c].pc = "idle"
       /\ inv[c].result = "nil"
       /\ batch[b].pc = "loop"
       /\ batch[b].idx = 1
       /\ Len(batch[b].channels) = NumChannels

(* ======================== claims: image responses ===================== *)
\* C20: GeminiImageHandler returns a BadResponseBody failure and writes no
\* success response when the prediction list is non-empty but every
\* prediction is content-filtered, as it does for an empty prediction list.
C20_AllFilteredFails ==
    (/\ image.pc = "handled"
     /\ image.body.kind = "json"
     /\ \A i \in 1..Len(image.body.Predictions) :
           image.body.Predictions[i].RaiFilteredReason # "")
    => /\ image.out.err = "bad_response_body"
       /\ ~image.out.written

\* C21: for an image response with at least one unfiltered prediction
\* GeminiImageHandler succeeds, the response data holds exactly the unfiltered
\* predictions in their original order, and usage is promptTokens =
\* totalTokens = 258 times the number of accepted images with
\* completionTokens = 0; for an empty prediction list it returns
\* BadResponseBody and writes nothing to the client.
C21_UnfilteredInOrder ==
    (image.pc = "handled" /\ image.body.kind = "json") =>
      LET predictions == image.body.Predictions
          unfiltered == SelectSeq(predictions, LAMBDA p : p.RaiFilteredReason = "")
          out == image.out
      IN /\ Len(unfiltered) >= 1 =>
               /\ out.err = "nil"
               /\ out.written
               /\ Len(out.Data) = Len(unfiltered)
               /\ \A i \in 1..Len(unfiltered) :
                     out.Data[i].B64Json = unfiltered[i].BytesBase64Encoded
               /\ out.usage # NoUsage
               /\ out.usage.PromptTokens = 258 * Len(unfiltered)
               /\ out.usage.TotalTokens = 258 * Len(unfiltered)
               /\ out.usage.CompletionTokens = 0
         /\ predictions = <<>> =>
               /\ out.err = "bad_response_body"
               /\ out.message = "no images generated"
               /\ ~out.written
               /\ out.usage = NoUsage

C21_Witness ==
    /\ image.pc = "handled"
    /\ image.body.kind = "json"
    /\ Len(image.body.Predictions) = 3
    /\ image.body.Predictions[1].RaiFilteredReason = ""
    /\ image.body.Predictions[2].RaiFilteredReason # ""
    /\ image.body.Predictions[3].RaiFilteredReason = ""
    /\ image.body.Predictions[1].BytesBase64Encoded # image.body.Predictions[3].BytesBase64Encoded
    /\ Len(image.out.Data) = 2

(* ========================= claims: test quota ========================= *)
\* r is num/den rounded to the nearest integer, halves away from zero
IsRounded(r, num, den) ==
    LET dist == IF r * den >= num THEN r * den - num ELSE num - r * den
        absR == IF r >= 0 THEN r * den ELSE -(r * den)
        absN == IF num >= 0 THEN num ELSE -num
    IN /\ 2 * dist <= den
       /\ 2 * dist = den => absR > absN

\* C22: for ratio-based pricing the test quota is
\* round((promptTokens + round(completionTokens * completionRatio)) * modelRatio),
\* replaced by 1 when modelRatio is non-zero and the result is at most 0 and
\* left as computed when modelRatio is 0; promptTokens=100,
\* completionTokens=50, completionRatio=2.0, modelRatio=0.5 give 100. For
\* flat per-call pricing the quota is modelPrice * quotaPerUnit truncated to
\* an integer.
C22_Quota ==
    pricing.pc = "computed" =>
      LET p == pricing.priceData
          u == pricing.usage
      IN IF ~p.UsePrice
           THEN /\ \E r1 \in -1..200, r2 \in -200..400 :
                      /\ IsRounded(r1, u.CompletionTokens * p.CompletionRatio.num,
                                   p.CompletionRatio.den)
                      /\ IsRounded(r2, (u.PromptTokens + r1) * p.ModelRatio.num,
                                   p.ModelRatio.den)
                      /\ pricing.quota = IF p.ModelRatio.num # 0 /\ r2 <= 0 THEN 1 ELSE r2
                /\ (/\ u.PromptTokens = 100 /\ u.CompletionTokens = 50
                    /\ p.CompletionRatio = Ratio(2, 1) /\ p.ModelRatio = Ratio(1, 2))
                   => pricing.quota = 100
                /\ p.ModelRatio.num = 0 => pricing.quota = 0
           ELSE /\ pricing.quota * p.ModelPrice.den <= p.ModelPrice.num * p.QuotaPerUnit
                /\ (pricing.quota + 1) * p.ModelPrice.den > p.ModelPrice.num * p.QuotaPerUnit

C22_Witness ==
    /\ pricing.pc = "computed"
    /\ ~pricing.priceData.UsePrice
    /\ pricing.usage = [PromptTokens |-> 100, CompletionTokens |-> 50]
    /\ pricing.priceData.CompletionRatio = Ratio(2, 1)
    /\ pricing.priceData.ModelRatio = Ratio(1, 2)
    /\ pricing.quota = 100

(* ======================== claims: Gemini adaptor ====================== *)
\* C23: for every upstream model name of the form base + "-thinking-<budget>",
\* base + "-thinking" or base + "-nothinking", GetRequestURL builds the URL
\* with the base model name (the suffix does not appear in the URL), and it
\* leaves info.OriginModelName unchanged.
C23_UrlUsesBaseName ==
    (relay.pc = "ready" /\ Len(relay.urls) >= 1) =>
      /\ relay.info.OriginModelName = relay.given
      /\ \A base \in BaseModelNames, suffix \in ThinkingSuffixes :
            relay.given = base \o suffix =>
              /\ relay.urls[1].model = base
              /\ relay.urls[1].version = GetGeminiVersionSetting(base)
              /\ ~Contains(relay.urls[1].model, DashThinking)
              /\ ~Contains(relay.urls[1].model, DashNothinking)

\* C24: DoResponse invokes exactly one response handler, chosen in this order
\* of priority: the native-passthrough relay mode (the stream or non-stream
\* native handler, even for imagen or embedding model names), else a model
\* name with the prefix "imagen" (image handler), else a model name with an
\* embedding prefix (embedding handler), else the canonical chat handler
\* chosen by the streaming flag.
C24_OneHandlerByPriority ==
    /\ Len(relay.handlers) <= 1
    /\ Len(relay.handlers) = 1 =>
         LET info == relay.info
             handler == relay.handlers[1]
             native == info.RelayMode = RelayModeGemini
             imagen == HasPrefix(info.UpstreamModelName, Imagen)
             embedding == \/ HasPrefix(info.UpstreamModelName, TextEmbedding)
                          \/ HasPrefix(info.UpstreamModelName, Embedding)
                          \/ HasPrefix(info.UpstreamModelName, GeminiEmbedding)
         IN /\ native =>
                 handler = IF info.IsStream THEN "GeminiTextGenerationStreamHandler"
                                            ELSE "GeminiTextGenerationHandler"
            /\ (~native /\ imagen) => handler = "GeminiImageHandler"
            /\ (~native /\ ~imagen /\ embedding) => handler = "GeminiEmbeddingHandler"
            /\ (~native /\ ~imagen /\ ~embedding) =>
                 handler = IF info.IsStream THEN "GeminiChatStreamHandler"
                                            ELSE "GeminiChatHandler"

C24_Witness ==
    /\ relay.pc = "ready"
    /\ relay.info.RelayMode = RelayModeGemini
    /\ HasPrefix(relay.info.UpstreamModelName, Imagen)
    /\ relay.handlers = <<"GeminiTextGenerationHandler">>

\* C25: every conversion operation of the Gemini adaptor for a capability it
\* does not support (audio, rerank, Claude-format request, OpenAI responses
\* request) ends by returning a non-nil error: none returns a nil request
\* with a nil error and none panics.
C25_UnsupportedReturnsError ==
    relay.pc # "none" /\ relay.conversion.op # "none" =>
      /\ ~relay.conversion.panic
      /\ relay.conversion.err \notin {"nil", "none"}

\* C26: whenever the model that testChannel actually tests is an
\* embedding-family model, the test is routed through the embedding capability
\* (embeddings request path, embeddings relay mode, ConvertEmbeddingRequest)
\* for every testKind, including when the caller passed an empty model name
\* and the embedding model came from the channel's configured test model or
\* the first entry of its model list.
C26_EmbeddingRoutedAsEmbedding ==
    (route.pc = "converted" /\ isEmbeddingModel(route.chosen.testModel)) =>
      /\ route.chosen.requestPath = "/v1/embeddings"
      /\ route.chosen.RelayMode = "RelayModeEmbeddings"
      /\ route.chosen.convert = "ConvertEmbeddingRequest"

\* C27: every testChannel call performs at most one adaptor DoRequest, none
\* when the channel type is an unsupported media-generation kind, and writes
\* the consume-log entry exactly once when the test succeeds and never when
\* it fails.
C27_OneRequestOneLog ==
    (single.pc = "done" /\ single.tests = 1) =>
      /\ single.doRequests <= 1
      /\ single.site = "unsupportedType" => single.doRequests = 0
      /\ (~single.result.localErr /\ ~single.result.newAPIError)
           => single.consumeLogs = 1
      /\ (single.result.localErr \/ single.result.newAPIError)
           => single.consumeLogs = 0

C27_Witness ==
    /\ single.pc = "done"
    /\ single.site = "ok"
    /\ single.doRequests = 1
    /\ single.consumeLogs = 1

\* C28: in any single batch iteration, disable and enable are never both
\* invoked for the same channel.
C28_NeverBothActions ==
    ~(loop.cur.disable /\ loop.cur.enable)

C28_Witness ==
    /\ loop.pc = "act"
    /\ loop.cur.status # ChannelStatusEnabled
    /\ loop.cur.autoBan
    /\ Classified(loop.cur.result, loop.cur.banAnswer)
    /\ loop.cur.enable
    /\ ~loop.cur.disable

\* the re-enable predicate C29 assumes: it accepts the nil error and rejects
\* every non-nil error
NilAcceptingPredicate ==
    loop.cur.enableAnswer # "notAsked" =>
      (loop.cur.enableAnswer = "yes" <=> loop.cur.enableArg = "nil")

\* C29: with a re-enable predicate that accepts the nil error and rejects
\* every non-nil error, the batch invokes enable for a disabled channel only
\* in an iteration whose test succeeded; a test that failed with a local
\* error carrying no API error never leads to re-enable, and such an
\* iteration completes: it is not ended by a panic on the absent test
\* context. (Line 448 fails this whatever the call with the nil context does:
\* if it returns, enable is invoked after the failed test; if it panics, the
\* iteration does not complete.)
C29_EnableOnlyAfterSuccess ==
    (Decided /\ NilAcceptingPredicate) =>
      /\ loop.cur.enable => ~loop.cur.result.localErr
      /\ (loop.cur.result.localErr /\ ~loop.cur.result.newAPIError) =>
           /\ ~loop.cur.enable
           /\ loop.cur.key # "panic"

\* C30: when caching is disabled by configuration, GetOrCreateGeminiCache
\* returns the empty handle with a nil error and performs no store access and
\* no upstream call, for every request, including requests whose
\* SystemInstructions is nil or that have no contents.
C30_DisabledCacheIsNoOp ==
    ~EnableCache =>
      \A p \in Procs :
         proc[p].pc # "idle" =>
           /\ proc[p].pc = "done"
           /\ proc[p].ret.handle = EmptyString
           /\ ~proc[p].ret.err
           /\ proc[p].getErr = "none"
           /\ proc[p].lookup = "none"
           /\ proc[p].create = "none"
           /\ proc[p].set = "none"

\* C31: every testResult returned by testChannel with a non-nil newAPIError
\* also has a non-nil localErr; consequently TestChannel reports every failed
\* test with time 0 and without scheduling a response-time update, and its
\* branch for "no local error but an API error" is never taken.
C31_ApiErrorImpliesLocalErr ==
    (single.pc = "done" /\ single.tests = 1) =>
      /\ single.result.newAPIError => single.result.localErr
      /\ (single.result.localErr \/ single.result.newAPIError) =>
           /\ ~single.response.success
           /\ single.response.time = 0
           /\ ~single.scheduled
      /\ single.response.error # "newAPIError"

C31_Witness ==
    /\ single.pc = "done"
    /\ single.site = "badStatus"
    /\ single.result.newAPIError
    /\ single.milliseconds = 5000
    /\ single.response = [success |-> FALSE, time |-> 0, error |-> "localErr"]
    /\ ~single.scheduled

\* C33: GetRequestURL is idempotent on the relay context: for every upstream
\* model name and streaming flag, a second call on the same RelayInfo returns
\* the same URL as the first call and leaves UpstreamModelName as the first
\* call left it.
C33_GetRequestURLIdempotent ==
    (relay.pc = "ready" /\ Len(relay.urls) = 2) =>
      /\ relay.urls[2] = relay.urls[1]
      /\ relay.info.UpstreamModelName = relay.urls[1].model

(* ================= claims: concurrent calls, same hash ================ *)
\* the handles the provider has handed out so far, each to one create call
CreatedHandles == {HandleName(k) : k \in 1..created}

\* C32, the returned handle: a call that returns a handle returns one it
\* created itself or one whose existence check answered 200 during that call.
C32_ReturnedHandleIsOwnOrConfirmed ==
    \A p \in DOMAIN proc :
       (proc[p].pc = "done" /\ proc[p].ret.handle # EmptyString) =>
          \/ /\ proc[p].ret.created
             /\ proc[p].create = "ok"
             /\ proc[p].ret.handle = proc[p].newID
          \/ /\ ~proc[p].ret.created
             /\ proc[p].lookup = "200"
             /\ proc[p].create = "none"
             /\ proc[p].ret.handle = proc[p].cached

\* C32, the stored mapping: once every call has finished, the mapping, if
\* present, names a handle that a create call returned.
C32_StoredMappingIsCreated ==
    (\A p \in DOMAIN proc : proc[p].pc \in {"idle", "done"}) =>
       \A key \in Keys :
          RDB[key] # EmptyString => UnmarshalCacheName(RDB[key]) \in CreatedHandles

\* C32, the steps of one call: the upstream create and the store write are
\* each taken by a call that has not taken that step before, and a store
\* write puts in the handle the same call created.
C32_OneCreateOneWrite ==
    \A p \in DOMAIN proc :
       /\ (created' # created /\ proc'[p] # proc[p]) =>
             /\ proc[p].create = "none"
             /\ created' = created + 1
             /\ proc'[p].newID = HandleName(created')
       /\ (RDB' # RDB /\ proc'[p] # proc[p]) =>
             /\ proc[p].set = "none"
             /\ proc[p].create = "ok"
             /\ UnmarshalCacheName(RDB'[RaceKey]) = proc[p].newID

\* C32: under any interleaving of concurrent GetOrCreateGeminiCache calls for
\* the same hash (the store being last-write-wins with no locking), every call
\* that returns a handle returns one it either created itself or confirmed to
\* exist upstream during that call, each call performs at most one upstream
\* create and at most one store write, and once all calls have finished the
\* stored mapping, if present, names a handle created by one of those calls
\* or by an earlier one.
C32_ConcurrentCallsSameHash ==
    /\ [](C32_ReturnedHandleIsOwnOrConfirmed /\ C32_StoredMappingIsCreated)
    /\ [][C32_OneCreateOneWrite]_vars

\* both calls missed the store, both created an entry, and the mapping names
\* the entry of the call that wrote last
C32_Witness ==
    /\ proc["relay"].pc = "done"
    /\ proc["other"].pc = "done"
    /\ proc["relay"].getErr = "redis.Nil"
    /\ proc["other"].getErr = "redis.Nil"
    /\ proc["relay"].ret.created
    /\ proc["other"].ret.created
    /\ proc["relay"].ret.handle # proc["other"].ret.handle
    /\ proc["relay"].set = "ok"
    /\ proc["other"].set = "ok"
    /\ UnmarshalCacheName(RDB[RaceKey]) = proc["relay"].newID
    /\ proc["relay"].newID = HandleName(1)

====
